---- MODULE Spec2Model ----
(***************************************************************************)
(* MailNet: the Outlook query planner (GraphQueryPlanner), the Gmail query *)
(* builder and the operations of GmailClient and OutlookClient.            *)
(*                                                                         *)
(* Text is modelled as a sequence of fragments.  Caller-supplied text and  *)
(* dictionary keys (labels, dates, addresses, ids) are spelled one         *)
(* character per fragment, so that upper(), lower(), capitalize(),         *)
(* strptime() and quote() act on their characters; fixed text of the       *)
(* source (f-string literals) is one fragment per run of URL-safe          *)
(* characters, and every character quote() escapes is a fragment of its    *)
(* own.  None and the empty string, which the source tests only by         *)
(* truthiness, are both the empty sequence.                                *)
(***************************************************************************)
EXTENDS Integers, Sequences, FiniteSets, TLC

VARIABLES planner, gmail, gop, outlook, oop, settings, server, toggles

vars == <<planner, gmail, gop, outlook, oop, settings, server, toggles>>

(***************************************************************************)
(* Bounds of the model.                                                    *)
(***************************************************************************)
MaxTop == 2
MaxMonthInput == 13
MaxDayInput == 32

(***************************************************************************)
(* Characters and the str methods the source calls.                        *)
(***************************************************************************)
None == << >>

Digits == <<"0", "1", "2", "3", "4", "5", "6", "7", "8", "9">>

LowerLetters ==
  <<"a", "b", "c", "d", "e", "f", "g", "h", "i", "j", "k", "l", "m",
    "n", "o", "p", "q", "r", "s", "t", "u", "v", "w", "x", "y", "z">>

UpperLetters ==
  <<"A", "B", "C", "D", "E", "F", "G", "H", "I", "J", "K", "L", "M",
    "N", "O", "P", "Q", "R", "S", "T", "U", "V", "W", "X", "Y", "Z">>

IsDigit(c) == \E i \in DOMAIN Digits : Digits[i] = c

DigitVal(c) == (CHOOSE i \in DOMAIN Digits : Digits[i] = c) - 1

UpperChar(c) ==
  IF \E i \in DOMAIN LowerLetters : LowerLetters[i] = c
  THEN UpperLetters[CHOOSE i \in DOMAIN LowerLetters : LowerLetters[i] = c]
  ELSE c

LowerChar(c) ==
  IF \E i \in DOMAIN UpperLetters : UpperLetters[i] = c
  THEN LowerLetters[CHOOSE i \in DOMAIN UpperLetters : UpperLetters[i] = c]
  ELSE c

upper(s) == [i \in DOMAIN s |-> UpperChar(s[i])]

lower(s) == [i \in DOMAIN s |-> LowerChar(s[i])]

capitalize(s) ==
  [i \in DOMAIN s |-> IF i = 1 THEN UpperChar(s[i]) ELSE LowerChar(s[i])]

RECURSIVE lstrip(_)
lstrip(s) ==
  IF s # << >> /\ Head(s) = " " THEN lstrip(Tail(s)) ELSE s

RECURSIVE rstrip(_)
rstrip(s) ==
  IF s # << >> /\ s[Len(s)] = " " THEN rstrip(SubSeq(s, 1, Len(s) - 1)) ELSE s

strip(s) == rstrip(lstrip(s))

\* sep.join(parts)
RECURSIVE join(_, _)
join(sep, parts) ==
  IF parts = << >> THEN << >>
  ELSE IF Len(parts) = 1 THEN parts[1]
  ELSE parts[1] \o sep \o join(sep, Tail(parts))

\* Code point order of the characters of the model, and sorted() of strings.
CodeOrder == <<" ">> \o Digits \o UpperLetters \o <<"_">> \o LowerLetters

Ord(c) == CHOOSE i \in DOMAIN CodeOrder : CodeOrder[i] = c

RECURSIVE StrLess(_, _)
StrLess(a, b) ==
  IF b = << >> THEN FALSE
  ELSE IF a = << >> THEN TRUE
  ELSE IF Head(a) = Head(b) THEN StrLess(Tail(a), Tail(b))
  ELSE Ord(Head(a)) < Ord(Head(b))

RECURSIVE sorted(_)
sorted(S) ==
  IF S = {} THEN << >>
  ELSE LET least == CHOOSE a \in S : \A b \in S \ {a} : StrLess(a, b)
       IN  <<least>> \o sorted(S \ {least})

\* The start positions of sub in s.
Occurrences(s, sub) ==
  {i \in 1..(Len(s) - Len(sub) + 1) : SubSeq(s, i, i + Len(sub) - 1) = sub}

Contains(s, sub) == Occurrences(s, sub) # {}

StartsWith(s, pre) == Len(pre) <= Len(s) /\ SubSeq(s, 1, Len(pre)) = pre

EndsWith(s, suf) ==
  Len(suf) <= Len(s) /\ SubSeq(s, Len(s) - Len(suf) + 1, Len(s)) = suf

(***************************************************************************)
(* urllib.parse.quote(filter_str, safe="()'/ "): letters, digits, "_.-~"   *)
(* and the safe characters pass; every other character becomes %XX.        *)
(***************************************************************************)
PercentEncoding ==
  [c \in {":", ",", "@", "&", "=", "?", "$"} |->
     CASE c = ":" -> "%3A"
       [] c = "," -> "%2C"
       [] c = "@" -> "%40"
       [] c = "&" -> "%26"
       [] c = "=" -> "%3D"
       [] c = "?" -> "%3F"
       [] c = "$" -> "%24"]

quote(s) ==
  [i \in DOMAIN s |->
     IF s[i] \in DOMAIN PercentEncoding THEN PercentEncoding[s[i]] ELSE s[i]]

(***************************************************************************)
(* datetime.strptime(date_str, "%Y/%m/%d") and                             *)
(* dt.strftime("%Y-%m-%dT00:00:00Z").                                      *)
(***************************************************************************)
AllDigits(s) == \A i \in DOMAIN s : IsDigit(s[i])

RECURSIVE Number(_)
Number(s) ==
  IF s = << >> THEN 0
  ELSE 10 * Number(SubSeq(s, 1, Len(s) - 1)) + DigitVal(s[Len(s)])

IsLeap(y) == (y % 4 = 0 /\ y % 100 # 0) \/ y % 400 = 0

DaysInMonth(y, m) ==
  IF m = 2 THEN (IF IsLeap(y) THEN 29 ELSE 28)
  ELSE IF m \in {4, 6, 9, 11} THEN 30 ELSE 31

\* %m is 1[0-2]|0[1-9]|[1-9]
MatchesMonth(s) ==
  /\ Len(s) \in {1, 2}
  /\ AllDigits(s)
  /\ Number(s) \in 1..12

\* %d is 3[01]|[12]\d|0[1-9]|[1-9]| [1-9]
MatchesDay(s) ==
  \/ /\ Len(s) \in {1, 2}
     /\ AllDigits(s)
     /\ Number(s) \in 1..31
  \/ /\ Len(s) = 2
     /\ s[1] = " "
     /\ IsDigit(s[2])
     /\ DigitVal(s[2]) \in 1..9

DayNumber(s) == IF s[1] = " " THEN DigitVal(s[2]) ELSE Number(s)

Pad2(n) == <<Digits[(n \div 10) + 1], Digits[(n % 10) + 1]>>

Pad4(n) == Pad2(n \div 100) \o Pad2(n % 100)

\* The parse of date_str: ok is FALSE where strptime raises ValueError.
strptime(date_str) ==
  LET slashes == {i \in DOMAIN date_str : date_str[i] = "/"}
      p2 == CHOOSE i \in slashes : i # 5
      Y == SubSeq(date_str, 1, 4)
      m == SubSeq(date_str, 6, p2 - 1)
      d == SubSeq(date_str, p2 + 1, Len(date_str))
      shaped == /\ Cardinality(slashes) = 2
                /\ 5 \in slashes
                /\ AllDigits(Y)
                /\ MatchesMonth(m)
                /\ MatchesDay(d)
  IN  IF shaped /\ Number(Y) >= 1 /\ DayNumber(d) <= DaysInMonth(Number(Y), Number(m))
      THEN [ok |-> TRUE, year |-> Number(Y), month |-> Number(m), day |-> DayNumber(d)]
      ELSE [ok |-> FALSE, year |-> 0, month |-> 0, day |-> 0]

strftime(dt) ==
  Pad4(dt.year) \o <<"-">> \o Pad2(dt.month) \o <<"-">> \o Pad2(dt.day)
    \o <<"T00", ":", "00", ":", "00Z">>

Raised(err) == [ok |-> FALSE, val |-> << >>, err |-> err]

Returned(v) == [ok |-> TRUE, val |-> v, err |-> "none"]

\* A conversion that parses nothing: the time of day is put after the text.
to_iso8601_verbatim(date_str) ==
  Returned(date_str \o <<"T00", ":", "00", ":", "00Z">>)

to_iso8601(date_str) ==
  LET dt == strptime(date_str)
  IN  IF dt.ok THEN Returned(strftime(dt)) ELSE Raised("ValueError")

(***************************************************************************)
(* GraphQueryPlanner.                                                      *)
(***************************************************************************)
INBOX == <<"I", "N", "B", "O", "X">>
SENT == <<"S", "E", "N", "T">>
DRAFT == <<"D", "R", "A", "F", "T">>
SPAM == <<"S", "P", "A", "M">>
TRASH == <<"T", "R", "A", "S", "H">>
ARCHIVE == <<"A", "R", "C", "H", "I", "V", "E">>
IMPORTANT == <<"I", "M", "P", "O", "R", "T", "A", "N", "T">>
STARRED == <<"S", "T", "A", "R", "R", "E", "D">>

\* The table with the six folder names alone: IMPORTANT left out of it.
GMAIL_TO_OUTLOOK_folders ==
  [k \in {INBOX, SENT, DRAFT, SPAM, TRASH, ARCHIVE} |->
     CASE k = INBOX -> "Inbox"
       [] k = SENT -> "SentItems"
       [] k = DRAFT -> "Drafts"
       [] k = SPAM -> "JunkEmail"
       [] k = TRASH -> "DeletedItems"
       [] k = ARCHIVE -> "Archive"]

GMAIL_TO_OUTLOOK ==
  [k \in {INBOX, SENT, DRAFT, SPAM, TRASH, ARCHIVE, IMPORTANT} |->
     CASE k = INBOX -> "Inbox"
       [] k = SENT -> "SentItems"
       [] k = DRAFT -> "Drafts"
       [] k = SPAM -> "JunkEmail"
       [] k = TRASH -> "DeletedItems"
       [] k = ARCHIVE -> "Archive"
       [] k = IMPORTANT -> "Inbox"]

\* A planner that keeps the label in the letter case it was given.
GraphQueryPlanner_as_given(label, filters, max_results) ==
  [label |-> label, filters |-> filters, max_results |-> max_results]

\* __init__: the label is upper-cased once, at construction.
GraphQueryPlanner(label, filters, max_results) ==
  [label |-> IF label # None THEN upper(label) ELSE None,
   filters |-> filters,
   max_results |-> max_results]

is_category_label(self) ==
  \/ (self.label # None /\ self.label \notin DOMAIN GMAIL_TO_OUTLOOK)
  \/ self.label \in {STARRED, IMPORTANT}

\* A planner that scopes to no folder.
get_folder_unscoped(self) == None

\* The folder name as one fragment; None when the label maps to no folder.
get_folder(self) ==
  IF self.label # None /\ self.label \in DOMAIN GMAIL_TO_OUTLOOK
  THEN <<GMAIL_TO_OUTLOOK[self.label]>>
  ELSE None

\* f.append(clause) when cond holds.
AppendIf(cond, clause) == IF cond THEN <<clause>> ELSE << >>

\* A filter whose explicit unread clause does not look at the label.
build_filter_unread_again(self) ==
  LET fl == self.filters
      after == IF fl.after # None THEN to_iso8601(fl.after) ELSE Returned(None)
      before == IF fl.before # None THEN to_iso8601(fl.before) ELSE Returned(None)
      f ==
        \* semantic flags
           AppendIf(self.label = DRAFT, <<"isDraft eq true">>)
        \o AppendIf(self.label = INBOX /\ fl.unread, <<"isRead eq false">>)
        \o AppendIf(self.label = IMPORTANT,
                    <<"categories/any(c", ":", "c eq '",
                      "I", "m", "p", "o", "r", "t", "a", "n", "t", "')">>)
        \* explicit filters
        \o AppendIf(fl.sender # None,
                    <<"from/emailAddress/address eq '">> \o fl.sender \o <<"'">>)
        \o AppendIf(fl.subject # None,
                    <<"contains(subject", ",", "'">> \o fl.subject \o <<"')">>)
        \o AppendIf(fl.has_attachment, <<"hasAttachments eq true">>)
        \o AppendIf(fl.after # None, <<"receivedDateTime ge ">> \o after.val)
        \o AppendIf(fl.before # None, <<"receivedDateTime le ">> \o before.val)
        \o AppendIf(fl.unread, <<"isRead eq false">>)
        \* custom category fallback
        \o AppendIf(self.label # None /\ self.label \notin DOMAIN GMAIL_TO_OUTLOOK,
                    <<"categories/any(c", ":", "c eq '">> \o self.label \o <<"')">>)
  IN  IF ~after.ok \/ ~before.ok THEN Raised("ValueError")
      ELSE Returned(IF f # << >> THEN join(<<" and ">>, f) ELSE None)

build_filter(self) ==
  LET fl == self.filters
      after == IF fl.after # None THEN to_iso8601(fl.after) ELSE Returned(None)
      before == IF fl.before # None THEN to_iso8601(fl.before) ELSE Returned(None)
      f ==
        \* semantic flags
           AppendIf(self.label = DRAFT, <<"isDraft eq true">>)
        \o AppendIf(self.label = INBOX /\ fl.unread, <<"isRead eq false">>)
        \o AppendIf(self.label = IMPORTANT,
                    <<"categories/any(c", ":", "c eq '",
                      "I", "m", "p", "o", "r", "t", "a", "n", "t", "')">>)
        \* explicit filters
        \o AppendIf(fl.sender # None,
                    <<"from/emailAddress/address eq '">> \o fl.sender \o <<"'">>)
        \o AppendIf(fl.subject # None,
                    <<"contains(subject", ",", "'">> \o fl.subject \o <<"')">>)
        \o AppendIf(fl.has_attachment, <<"hasAttachments eq true">>)
        \o AppendIf(fl.after # None, <<"receivedDateTime ge ">> \o after.val)
        \o AppendIf(fl.before # None, <<"receivedDateTime le ">> \o before.val)
        \o AppendIf(fl.unread /\ self.label # INBOX, <<"isRead eq false">>)
        \* custom category fallback
        \o AppendIf(self.label # None /\ self.label \notin DOMAIN GMAIL_TO_OUTLOOK,
                    <<"categories/any(c", ":", "c eq '">> \o self.label \o <<"')">>)
  IN  IF ~after.ok \/ ~before.ok THEN Raised("ValueError")
      ELSE Returned(IF f # << >> THEN join(<<" and ">>, f) ELSE None)

\* A planner that lists the messages whether or not msg_id is set.
compose_endpoint_listing(self) ==
  Returned(<<"/me/messages", "?", "$top=", ToString(self.max_results)>>)

\* A planner that leaves the result-count limit out of a filtered query.
compose_endpoint_unlimited(self) ==
  IF self.filters.msg_id # None
  THEN Returned(<<"/me/messages/">> \o self.filters.msg_id)
  ELSE
    LET filter_str == build_filter(self)
        folder == get_folder(self)
        base == IF folder # None
                THEN <<"/me/mailFolders/">> \o folder \o <<"/messages">>
                ELSE <<"/me/messages">>
        query == IF filter_str.val # None
                 THEN <<(<<"$filter=">> \o quote(filter_str.val))>>
                 ELSE <<(<<"$top=", ToString(self.max_results)>>)>>
    IN  IF ~filter_str.ok THEN filter_str
        ELSE Returned(base \o <<"?">> \o join(<<"&">>, query))

compose_endpoint(self) ==
  IF self.filters.msg_id # None
  THEN Returned(<<"/me/messages/">> \o self.filters.msg_id)
  ELSE
    LET filter_str == build_filter(self)
        folder == get_folder(self)
        base == IF folder # None
                THEN <<"/me/mailFolders/">> \o folder \o <<"/messages">>
                ELSE <<"/me/messages">>
        query == AppendIf(filter_str.val # None, <<"$filter=">> \o quote(filter_str.val))
                   \o <<(<<"$top=", ToString(self.max_results)>>)>>
    IN  IF ~filter_str.ok THEN filter_str
        ELSE Returned(base \o <<"?">> \o join(<<"&">>, query))

(***************************************************************************)
(* Inputs of the planner: labels in three letter cases, the abstract       *)
(* filters, and dates written in several shapes.                           *)
(***************************************************************************)
WORK == <<"W", "O", "R", "K">>
FUN == <<"F", "U", "N">>

LabelWords == {INBOX, SENT, DRAFT, SPAM, TRASH, ARCHIVE, IMPORTANT, STARRED, WORK, FUN}

LabelInputs ==
  {None} \cup LabelWords \cup {lower(w) : w \in LabelWords}
         \cup {capitalize(w) : w \in LabelWords}

Years == {2000, 2024, 2025, 2100}

DateShapes ==
  {"YYYY/MM/DD", "YYYY/M/D", "YYYY-MM-DD", "YY/MM/DD", "YYYY/MM", "DD/MM/YYYY",
   "YYYY/MM/DD "}

DateSources ==
  [shape : DateShapes, y : Years, m : 0..MaxMonthInput, d : 0..MaxDayInput]

Unpadded(n) == IF n < 10 THEN <<Digits[n + 1]>> ELSE Pad2(n)

DateText(src) ==
  CASE src.shape = "YYYY/MM/DD" ->
         Pad4(src.y) \o <<"/">> \o Pad2(src.m) \o <<"/">> \o Pad2(src.d)
    [] src.shape = "YYYY/M/D" ->
         Pad4(src.y) \o <<"/">> \o Unpadded(src.m) \o <<"/">> \o Unpadded(src.d)
    [] src.shape = "YYYY-MM-DD" ->
         Pad4(src.y) \o <<"-">> \o Pad2(src.m) \o <<"-">> \o Pad2(src.d)
    [] src.shape = "YY/MM/DD" ->
         Pad2(src.y % 100) \o <<"/">> \o Pad2(src.m) \o <<"/">> \o Pad2(src.d)
    [] src.shape = "YYYY/MM" ->
         Pad4(src.y) \o <<"/">> \o Pad2(src.m)
    [] src.shape = "DD/MM/YYYY" ->
         Pad2(src.d) \o <<"/">> \o Pad2(src.m) \o <<"/">> \o Pad4(src.y)
    [] src.shape = "YYYY/MM/DD " ->
         Pad4(src.y) \o <<"/">> \o Pad2(src.m) \o <<"/">> \o Pad2(src.d) \o <<" ">>

\* A date of the calendar, written as the format asks.
WellFormed(src) ==
  /\ src.shape \in {"YYYY/MM/DD", "YYYY/M/D"}
  /\ src.m \in 1..12
  /\ src.d \in 1..DaysInMonth(src.y, src.m)

DateInputs == {DateText(src) : src \in DateSources}

GoodDates ==
  {DateText([shape |-> "YYYY/MM/DD", y |-> 2025, m |-> 1, d |-> 1]),
   DateText([shape |-> "YYYY/M/D", y |-> 2025, m |-> 10, d |-> 5])}

BadDates ==
  {DateText([shape |-> "YYYY-MM-DD", y |-> 2025, m |-> 1, d |-> 1]),
   DateText([shape |-> "YYYY/MM/DD", y |-> 2025, m |-> 2, d |-> 30])}

Senders == {None, <<"a", "@", "b", ".", "c", "o", "m">>}

Subjects == {None, <<"h", "i", ",", " ", "y", "o", "u">>}

MsgIds == {<<"m", "1">>, <<"m", "2">>}

FilterInputs ==
  [sender : Senders, subject : Subjects, has_attachment : BOOLEAN,
   after : {None} \cup GoodDates \cup BadDates,
   before : {None} \cup GoodDates \cup BadDates,
   unread : BOOLEAN, msg_id : {None, <<"m", "1">>}]

NoFilters ==
  [sender |-> None, subject |-> None, has_attachment |-> FALSE, after |-> None,
   before |-> None, unread |-> FALSE, msg_id |-> None]

(***************************************************************************)
(* The result envelope of EmailClient: operation_status, operation_message *)
(* and, on success, a result that is one dict or a list of dicts.  An      *)
(* operation that lets an exception escape returns no envelope at all.     *)
(***************************************************************************)
Succeeded(message, result_type, result) ==
  [kind |-> "envelope", operation_status |-> "SUCCEEDED", operation_message |-> message,
   result_type |-> result_type, result |-> result]

\* A SUCCEEDED envelope built without a "result" key.
SucceededBare(message) ==
  [kind |-> "envelope", operation_status |-> "SUCCEEDED", operation_message |-> message,
   result_type |-> "absent", result |-> << >>]

Failed(message) ==
  [kind |-> "envelope", operation_status |-> "FAILED", operation_message |-> message,
   result_type |-> "absent", result |-> << >>]

Escaped(message) ==
  [kind |-> "exception", operation_status |-> "none", operation_message |-> message,
   result_type |-> "absent", result |-> << >>]

NoEnvelope ==
  [kind |-> "none", operation_status |-> "none", operation_message |-> << >>,
   result_type |-> "absent", result |-> << >>]

\* str(KeyError('result')): what res['result'] raises on a FAILED envelope.
KeyErrorResult == <<"'result'">>

(***************************************************************************)
(* The arguments of the nine operations, and the calls an operation makes  *)
(* on its transport.  fate is the position, among the calls of one         *)
(* operation, of the call the provider fails (0: none).                    *)
(***************************************************************************)
NoArgs ==
  [to |-> None, subject |-> None, body |-> None, draft_id |-> None, msg_id |-> None,
   label_name |-> None, action |-> None, filters |-> NoFilters, label |-> None,
   max_results |-> 0, days_back |-> 0]

NoCall ==
  [api |-> "none", id |-> None, q |-> None, max_results |-> 0, format |-> "none",
   add |-> {}, remove |-> {}, to |-> None, subject |-> None, body |-> None,
   thread |-> None, in_reply_to |-> None, categories |-> << >>, endpoint |-> None,
   failed |-> FALSE]

\* datetime.now() - timedelta(days=days_back), as '%Y/%m/%d'.
Today == [year |-> 2025, month |-> 3, day |-> 2]

PrevDay(dt) ==
  IF dt.day > 1 THEN [dt EXCEPT !.day = dt.day - 1]
  ELSE IF dt.month > 1
       THEN [dt EXCEPT !.month = dt.month - 1,
                       !.day = DaysInMonth(dt.year, dt.month - 1)]
       ELSE [year |-> dt.year - 1, month |-> 12, day |-> 31]

RECURSIVE DaysBefore(_, _)
DaysBefore(dt, n) == IF n = 0 THEN dt ELSE DaysBefore(PrevDay(dt), n - 1)

get_today_date(days_back) ==
  Pad4(Today.year) \o <<"/">> \o Pad2(Today.month) \o <<"/">> \o Pad2(Today.day)

get_after_date(days_back) ==
  LET cutoff == DaysBefore(Today, days_back)
  IN  Pad4(cutoff.year) \o <<"/">> \o Pad2(cutoff.month) \o <<"/">> \o Pad2(cutoff.day)

(***************************************************************************)
(* The Gmail account behind GmailClient.service: the labels of the         *)
(* account, the messages with their label ids, and the drafts.  A call     *)
(* fails when the provider fails it (fate) or when it names a message or   *)
(* a draft the account does not hold.                                      *)
(***************************************************************************)
MaxDrafts == 1

DraftIds == {<<"d", Digits[i + 1]>> : i \in 1..MaxDrafts}

GmailLabels ==
  <<[name |-> INBOX, id |-> "INBOX"],
    [name |-> STARRED, id |-> "STARRED"],
    [name |-> <<"W", "o", "r", "k">>, id |-> "Label_1"]>>

GmailLabelIds == {GmailLabels[i].id : i \in DOMAIN GmailLabels}

\* The message resource users().messages().get returns.
GmailResource(mb, id) ==
  [id |-> id,
   threadId |-> <<"t">> \o id,
   labelIds |-> mb.labelIds[id],
   subject |-> <<"Hello ">> \o id,
   from |-> <<"Ann <ann@x.org>">>,
   body |-> <<"text of ">> \o id,
   filenames |-> <<(<<"a.pdf">>)>>,
   internalDate |-> <<"2025-03-01T10:00:00">>]

GmailError(call) == <<"<HttpError ", call.api, ">">>

GmailFails(mb, call, k, fate) ==
  \/ fate = k
  \/ /\ call.api \in {"messages.get", "messages.modify", "messages.delete"}
     /\ call.id \notin DOMAIN mb.labelIds
  \/ /\ call.api = "drafts.send"
     /\ call.id \notin mb.drafts

GmailEffect(mb, call) ==
  CASE call.api = "messages.modify" ->
         [mb EXCEPT !.labelIds[call.id] = (@ \cup call.add) \ call.remove]
    [] call.api = "messages.delete" ->
         [mb EXCEPT !.labelIds = [m \in (DOMAIN mb.labelIds) \ {call.id} |-> mb.labelIds[m]]]
    [] call.api = "drafts.create" ->
         [mb EXCEPT !.drafts = @ \cup {CHOOSE d \in DraftIds : d \notin mb.drafts}]
    [] call.api = "drafts.send" ->
         [mb EXCEPT !.drafts = @ \ {call.id}]
    [] OTHER -> mb

GmailData(mb, call) ==
  CASE call.api \in {"messages.get", "messages.modify"} ->
         GmailResource(GmailEffect(mb, call), call.id)
    [] call.api = "drafts.create" ->
         [id |-> CHOOSE d \in DraftIds : d \notin mb.drafts]
    [] call.api = "labels.list" -> [labels |-> GmailLabels]
    [] OTHER -> [id |-> <<"sent">>]

\* The k-th call of an operation: .execute() run through asyncio.to_thread.
GmailExecute(mb, call, k, fate) ==
  IF GmailFails(mb, call, k, fate)
  THEN [ok |-> FALSE, call |-> [call EXCEPT !.failed = TRUE], mb |-> mb,
        data |-> [id |-> None], error |-> GmailError(call)]
  ELSE [ok |-> TRUE, call |-> call, mb |-> GmailEffect(mb, call),
        data |-> GmailData(mb, call), error |-> None]

(***************************************************************************)
(* GmailClient.  An operation yields the calls it made, what it returned   *)
(* (ret) and the account afterwards (mb).                                  *)
(***************************************************************************)
Outcome(calls, ret, mb) == [calls |-> calls, ret |-> ret, mb |-> mb]

\* No except clause: what is raised goes on to the caller.
propagate(outcome) == outcome

\* except Exception as e: the FAILED envelope carrying str(e).
except_Exception(outcome) ==
  IF outcome.ret.kind = "exception"
  THEN [outcome EXCEPT !.ret = Failed(outcome.ret.operation_message)]
  ELSE outcome

\* res = <call>.execute(), after the calls made so far: the exception of a failed
\* call leaves the try block, the response of a successful one is the result.
ReturnResponse(calls, r, message) ==
  Outcome(Append(calls, r.call),
          IF r.ok THEN Succeeded(message, "dict", <<r.data>>) ELSE Escaped(r.error),
          r.mb)

parse_msg(msg_data) ==
  [id |-> msg_data.id,
   threadId |-> msg_data.threadId,
   subject |-> msg_data.subject,
   sender |-> msg_data.from,
   body |-> msg_data.body,
   attachments |-> msg_data.filenames,
   labelIds |-> msg_data.labelIds,
   dateTime |-> msg_data.internalDate]

\* A label listing that loses its first label.
LabelsButFirst(r) ==
  [call |-> r.call, labels |-> IF r.ok THEN Tail(r.data.labels) ELSE << >>]

\* _get_labels: a failed labels.list is swallowed and reads as no labels.
LabelsOrNone(r) == [call |-> r.call, labels |-> IF r.ok THEN r.data.labels ELSE << >>]

Gmail_get_labels(mb, k, fate) ==
  LabelsOrNone(GmailExecute(mb, [NoCall EXCEPT !.api = "labels.list"], k, fate))

Gmail_send_email(mb, to, subject, body, fate) ==
  except_Exception(
    ReturnResponse(<< >>,
                   GmailExecute(mb, [NoCall EXCEPT !.api = "messages.send", !.to = to,
                                                   !.subject = subject, !.body = body],
                                1, fate),
                   <<"Email has been sent successfully">>))

Gmail_draft_email(mb, to, subject, body, fate) ==
  except_Exception(
    ReturnResponse(<< >>,
                   GmailExecute(mb, [NoCall EXCEPT !.api = "drafts.create", !.to = to,
                                                   !.subject = subject, !.body = body],
                                1, fate),
                   <<"Email draft has been created successfully">>))

Gmail_send_draft(mb, draft_id, fate) ==
  except_Exception(
    ReturnResponse(<< >>,
                   GmailExecute(mb, [NoCall EXCEPT !.api = "drafts.send", !.id = draft_id],
                                1, fate),
                   <<"Email draft has been sent successfully">>))

\* The query with is:unread put first.
gmail_query_reordered(filters, label) ==
  join(<<" ">>,
          AppendIf(filters.unread, <<"is", ":", "unread">>)
       \o AppendIf(filters.sender # None, <<"from", ":">> \o filters.sender)
       \o AppendIf(filters.subject # None, <<"subject", ":">> \o filters.subject)
       \o AppendIf(filters.has_attachment, <<"has", ":", "attachment">>)
       \o AppendIf(filters.after # None, <<"after", ":">> \o filters.after)
       \o AppendIf(filters.before # None, <<"before", ":">> \o filters.before)
       \o AppendIf(label # None, <<"label", ":">> \o label))

\* query_parts, joined by one space.
gmail_query(filters, label) ==
  join(<<" ">>,
          AppendIf(filters.sender # None, <<"from", ":">> \o filters.sender)
       \o AppendIf(filters.subject # None, <<"subject", ":">> \o filters.subject)
       \o AppendIf(filters.has_attachment, <<"has", ":", "attachment">>)
       \o AppendIf(filters.after # None, <<"after", ":">> \o filters.after)
       \o AppendIf(filters.before # None, <<"before", ":">> \o filters.before)
       \o AppendIf(filters.unread, <<"is", ":", "unread">>)
       \o AppendIf(label # None, <<"label", ":">> \o label))

ReturnParsedInList(r) ==
  Outcome(<<r.call>>,
          IF r.ok
          THEN Succeeded(<<"Email has been searched successfully">>, "list",
                         <<parse_msg(r.data)>>)
          ELSE Escaped(r.error),
          r.mb)

\* if msg_id: one messages.get, parsed.
ReturnParsed(r) ==
  Outcome(<<r.call>>,
          IF r.ok
          THEN Succeeded(<<"Email has been searched successfully">>, "dict",
                         <<parse_msg(r.data)>>)
          ELSE Escaped(r.error),
          r.mb)

\* for msg in messages: get it in full and parse it; ids are those still to get,
\* r the get of the one before them.
RECURSIVE GmailEnrich(_, _, _, _, _, _)
GmailEnrich(r, ids, k, fate, calls, enriched) ==
  IF ~r.ok THEN Outcome(Append(calls, r.call), Escaped(r.error), r.mb)
  ELSE IF ids = << >>
  THEN Outcome(Append(calls, r.call),
               Succeeded(<<"Emails have been searched successfully">>, "list",
                         Append(enriched, parse_msg(r.data))),
               r.mb)
  ELSE GmailEnrich(GmailExecute(r.mb, [NoCall EXCEPT !.api = "messages.get",
                                                     !.id = Head(ids), !.format = "full"],
                                k, fate),
                   Tail(ids), k + 1, fate, Append(calls, r.call),
                   Append(enriched, parse_msg(r.data)))

\* A listing that is asked for a second time when it fails.
ReturnListedRetried(r, listed, fate) ==
  IF ~r.ok THEN Outcome(<<r.call, r.call>>, Escaped(r.error), r.mb)
  ELSE IF listed = << >>
  THEN Outcome(<<r.call>>,
               Succeeded(<<"Emails have been searched successfully">>, "list", << >>),
               r.mb)
  ELSE GmailEnrich(GmailExecute(r.mb, [NoCall EXCEPT !.api = "messages.get",
                                                     !.id = Head(listed),
                                                     !.format = "full"], 2, fate),
                   Tail(listed), 3, fate, <<r.call>>, << >>)

\* r is the messages.list call, listed the ids it answers with.
ReturnListed(r, listed, fate) ==
  IF ~r.ok THEN Outcome(<<r.call>>, Escaped(r.error), r.mb)
  ELSE IF listed = << >>
  THEN Outcome(<<r.call>>,
               Succeeded(<<"Emails have been searched successfully">>, "list", << >>),
               r.mb)
  ELSE GmailEnrich(GmailExecute(r.mb, [NoCall EXCEPT !.api = "messages.get",
                                                     !.id = Head(listed),
                                                     !.format = "full"], 2, fate),
                   Tail(listed), 3, fate, <<r.call>>, << >>)

Gmail_search_emails(mb, filters, label, max_results, fate, listed) ==
  except_Exception(
    IF filters.msg_id # None
    THEN ReturnParsed(GmailExecute(mb, [NoCall EXCEPT !.api = "messages.get",
                                                      !.id = filters.msg_id,
                                                      !.format = "full"], 1, fate))
    ELSE ReturnListed(GmailExecute(mb, [NoCall EXCEPT !.api = "messages.list",
                                                      !.q = gmail_query(filters, label),
                                                      !.max_results = max_results],
                                   1, fate),
                      listed, fate))

\* messages = res['result']: a KeyError when the search returned FAILED.
Unpack(res) ==
  IF res.ret.result_type = "absent"
  THEN Outcome(res.calls, Escaped(KeyErrorResult), res.mb)
  ELSE Outcome(res.calls,
               Succeeded(<<"Emails have been read successfully">>, res.ret.result_type,
                         res.ret.result),
               res.mb)

Gmail_read_emails(mb, max_results, days_back, fate, listed) ==
  except_Exception(
    Unpack(Gmail_search_emails(mb, [NoFilters EXCEPT !.after = get_after_date(days_back)],
                               None, max_results, fate, listed)))

SendReplyAnyway(result, msg_id, body, fate) ==
  ReturnResponse(result.calls,
                 GmailExecute(result.mb,
                              [NoCall EXCEPT !.api = "messages.send", !.body = body,
                                             !.in_reply_to = msg_id],
                              Len(result.calls) + 1, fate),
                 <<"Replied to email successfully">>)

\* result is the search for the original message.
SendReply(result, msg_id, body, fate) ==
  IF result.ret.operation_status # "SUCCEEDED"
  THEN Outcome(result.calls, Escaped(result.ret.operation_message), result.mb)
  ELSE ReturnResponse(result.calls,
         GmailExecute(result.mb,
                      [NoCall EXCEPT !.api = "messages.send",
                                     !.to = result.ret.result[1].sender,
                                     !.subject = <<"Re: ">> \o result.ret.result[1].subject,
                                     !.body = body,
                                     !.in_reply_to = msg_id,
                                     !.thread = result.ret.result[1].threadId],
                      Len(result.calls) + 1, fate),
         <<"Replied to email successfully">>)

Gmail_reply_to_email(mb, msg_id, body, fate) ==
  except_Exception(
    SendReply(Gmail_search_emails(mb, [NoFilters EXCEPT !.msg_id = msg_id], None, 10,
                                  fate, << >>),
              msg_id, body, fate))

\* The SUCCEEDED envelope of delete_email has no "result" key.
ReturnBare(r, message) ==
  Outcome(<<r.call>>, IF r.ok THEN SucceededBare(message) ELSE Escaped(r.error), r.mb)

Gmail_delete_email(mb, msg_id, fate) ==
  except_Exception(
    ReturnBare(GmailExecute(mb, [NoCall EXCEPT !.api = "messages.delete", !.id = msg_id],
                            1, fate),
               <<"Email has been deleted successfully">>))

Gmail_archive_email(mb, msg_id, fate) ==
  except_Exception(
    ReturnResponse(<< >>,
                   GmailExecute(mb, [NoCall EXCEPT !.api = "messages.modify",
                                                   !.id = msg_id, !.remove = {"INBOX"}],
                                1, fate),
                   <<"Emails have been archived successfully">>))

\* {label['name'].lower(): label['id'] for label in labels}
LabelMap(labels) ==
  [key \in {lower(labels[i].name) : i \in DOMAIN labels} |->
     labels[CHOOSE i \in DOMAIN labels :
              /\ lower(labels[i].name) = key
              /\ \A j \in DOMAIN labels : lower(labels[j].name) = key => j <= i].id]

\* An add that does not look at the labels of the message.
label_always_added(label_id, msg_labels) == TRUE

\* if label_id not in msg_labels
label_not_in(label_id, msg_labels) == label_id \notin msg_labels

\* The branches on action, once the message (r) is fetched: modify only when the
\* label is not yet there (add) or is there (remove).
ToggleFetched(got, r, label_id, msg_id, label_name, action, fate) ==
  IF ~r.ok THEN Outcome(<<got.call, r.call>>, Escaped(r.error), r.mb)
  ELSE IF action = "add"
  THEN IF label_not_in(label_id, r.data.labelIds)
       THEN ReturnResponse(<<got.call, r.call>>,
              GmailExecute(r.mb, [NoCall EXCEPT !.api = "messages.modify", !.id = msg_id,
                                                !.add = {label_id}], 3, fate),
              <<"Added label '">> \o label_name \o <<"' to message ">> \o msg_id)
       ELSE Outcome(<<got.call, r.call>>,
                    Failed(<<"Label '">> \o label_name
                             \o <<"' already present on message ">> \o msg_id),
                    r.mb)
  ELSE IF action = "remove"
  THEN IF label_id \in r.data.labelIds
       THEN ReturnResponse(<<got.call, r.call>>,
              GmailExecute(r.mb, [NoCall EXCEPT !.api = "messages.modify", !.id = msg_id,
                                                !.remove = {label_id}], 3, fate),
              <<"Removed label '">> \o label_name \o <<"' from message ">> \o msg_id)
       ELSE Outcome(<<got.call, r.call>>,
                    Failed(<<"Label '">> \o label_name
                             \o <<"' not present on message ">> \o msg_id),
                    r.mb)
  ELSE Outcome(<<got.call, r.call>>,
               Failed(<<"Unknown action '", action, "'. Use 'add' or 'remove'.">>),
               r.mb)

\* got is what _get_labels returned, label_map the dict made of it.
ToggleLooked(mb, got, label_map, msg_id, label_name, action, fate) ==
  IF lower(label_name) \notin DOMAIN label_map
  THEN Outcome(<<got.call>>,
               Failed(<<"Label '">> \o label_name
                        \o <<"' not found. Available labels: ">>
                        \o join(<<",">>, sorted(DOMAIN label_map))),
               mb)
  ELSE ToggleFetched(got,
                     GmailExecute(mb, [NoCall EXCEPT !.api = "messages.get",
                                                     !.id = msg_id], 2, fate),
                     label_map[lower(label_name)], msg_id, label_name, action, fate)

ToggleListed(mb, got, msg_id, label_name, action, fate) ==
  ToggleLooked(mb, got, LabelMap(got.labels), msg_id, label_name, action, fate)

Gmail_toggle_label_email(mb, msg_id, label_name, action, fate) ==
  except_Exception(
    ToggleListed(mb, Gmail_get_labels(mb, 1, fate), msg_id, label_name, action, fate))

(***************************************************************************)
(* The planner as a state machine: planner holds one call, first pending   *)
(* with its arguments and then done with what the call produced.           *)
(***************************************************************************)
Pending == [ok |-> FALSE, val |-> None, err |-> "pending"]

ComposeCalls ==
  {[fn |-> "compose_endpoint", done |-> FALSE, date |-> None, label |-> label,
    filters |-> filters, max_results |-> max_results, out |-> Pending] :
     label \in LabelInputs, filters \in FilterInputs, max_results \in 1..MaxTop}

ToIsoCalls ==
  {[fn |-> "to_iso8601", done |-> FALSE, date |-> date_str, label |-> None,
    filters |-> NoFilters, max_results |-> 1, out |-> Pending] :
     date_str \in DateInputs}

PlannerIdle ==
  [fn |-> "none", done |-> TRUE, date |-> None, label |-> None, filters |-> NoFilters,
   max_results |-> 1, out |-> Pending]

CallComposeEndpoint ==
  /\ planner.fn = "compose_endpoint"
  /\ ~planner.done
  /\ planner' = [planner EXCEPT
                   !.done = TRUE,
                   !.out = compose_endpoint(GraphQueryPlanner(
                             planner.label, planner.filters, planner.max_results))]
  /\ UNCHANGED <<gmail, gop, outlook, oop, settings, server, toggles>>

CallToIso8601 ==
  /\ planner.fn = "to_iso8601"
  /\ ~planner.done
  /\ planner' = [planner EXCEPT !.done = TRUE, !.out = to_iso8601(planner.date)]
  /\ UNCHANGED <<gmail, gop, outlook, oop, settings, server, toggles>>

(***************************************************************************)
(* GmailClient as a state machine.  gmail is the account; gop is the       *)
(* operation last called: its arguments, the fate of its calls, the        *)
(* account before it (pre), the calls it made and what it returned.        *)
(***************************************************************************)
OperationNames ==
  {"send_email", "draft_email", "send_draft", "search_emails", "read_emails",
   "reply_to_email", "delete_email", "archive_email", "toggle_label_email"}

MaxFate == 3

Fates == 0..MaxFate

Actions == {"add", "remove", "toggle"}

Address == <<"a", "@", "b", ".", "c", "o", "m">>

Text == <<"h", "i">>

GmailInit ==
  [labelIds |-> [m \in MsgIds |-> {"INBOX"}], drafts |-> {}]

\* No account: what an idle client has for the account before and after.
NoAccount == [drafts |-> {}]

Idle ==
  [op |-> "idle", pending |-> FALSE, args |-> NoArgs, fate |-> 0, listed |-> << >>,
   pre |-> NoAccount, calls |-> << >>, ret |-> NoEnvelope, post |-> NoAccount]

\* The operation op has run to its outcome: the record of it, and the account
\* as the outcome leaves it.
Completed(op, args, fate, listed, pre, outcome) ==
  [op |-> op, pending |-> FALSE, args |-> args, fate |-> fate, listed |-> listed,
   pre |-> pre, calls |-> outcome.calls, ret |-> outcome.ret, post |-> outcome.mb]

GmailDo(op, args, fate, listed, outcome) ==
  /\ gop' = Completed(op, args, fate, listed, gmail, outcome)
  /\ gmail' = gop'.post
  /\ UNCHANGED <<planner, outlook, oop, settings, server, toggles>>

\* What messages.list may answer: existing messages, at most max_results of them.
Listings(ids, max_results) ==
  {l \in {<< >>} \cup {<<a>> : a \in ids} \cup {<<a, b>> : a \in ids, b \in ids} :
     /\ Len(l) <= max_results
     /\ \A i, j \in DOMAIN l : i # j => l[i] # l[j]}

GmailSendEmail ==
  /\ gop.op = "idle"
  /\ \E fate \in Fates :
       GmailDo("send_email",
               [NoArgs EXCEPT !.to = Address, !.subject = Text, !.body = Text], fate, << >>,
               Gmail_send_email(gmail, Address, Text, Text, fate))

GmailDraftEmail ==
  /\ gop.op = "idle"
  /\ Cardinality(gmail.drafts) < MaxDrafts
  /\ \E fate \in Fates :
       GmailDo("draft_email",
               [NoArgs EXCEPT !.to = Address, !.subject = Text, !.body = Text], fate, << >>,
               Gmail_draft_email(gmail, Address, Text, Text, fate))

GmailSendDraft ==
  /\ gop.op = "idle"
  /\ \E draft_id \in DraftIds, fate \in Fates :
       GmailDo("send_draft", [NoArgs EXCEPT !.draft_id = draft_id], fate, << >>,
               Gmail_send_draft(gmail, draft_id, fate))

ClientFilters ==
  {NoFilters,
   [NoFilters EXCEPT !.sender = Address, !.unread = TRUE],
   [NoFilters EXCEPT !.after = CHOOSE d \in BadDates : TRUE]}
    \cup {[NoFilters EXCEPT !.msg_id = id] : id \in MsgIds}

\* A call of search_emails that waits to be served.
PendingSearch(call) ==
  [Idle EXCEPT !.op = "search_emails", !.pending = TRUE,
               !.args = [NoArgs EXCEPT !.filters = call.filters, !.label = call.label,
                                       !.max_results = call.max_results],
               !.fate = call.fate, !.listed = call.listed]

\* The calls of search_emails a client may serve: the one that waits, or any of
\* those a caller makes of the idle client.
SearchCalls(op, ids, fates) ==
  IF op.pending
  THEN {[filters |-> op.args.filters, label |-> op.args.label,
         max_results |-> op.args.max_results, fate |-> op.fate, listed |-> op.listed]}
  ELSE IF op.op # "idle" THEN {}
  ELSE UNION {[filters : ClientFilters, label : {None, STARRED}, max_results : {n},
               fate : fates, listed : Listings(ids, n)] : n \in 1..MaxTop}

GmailSearchEmails ==
  \E call \in SearchCalls(gop, DOMAIN gmail.labelIds, Fates) :
    GmailDo("search_emails",
            [NoArgs EXCEPT !.filters = call.filters, !.label = call.label,
                           !.max_results = call.max_results], call.fate, call.listed,
            Gmail_search_emails(gmail, call.filters, call.label, call.max_results,
                                call.fate, call.listed))

GmailReadEmails ==
  /\ gop.op = "idle"
  /\ \E max_results \in 1..MaxTop, days_back \in {1, 5}, fate \in Fates :
       \E listed \in Listings(DOMAIN gmail.labelIds, max_results) :
         GmailDo("read_emails",
                 [NoArgs EXCEPT !.max_results = max_results, !.days_back = days_back],
                 fate, listed,
                 Gmail_read_emails(gmail, max_results, days_back, fate, listed))

GmailReplyToEmail ==
  /\ gop.op = "idle"
  /\ \E msg_id \in MsgIds, fate \in Fates :
       GmailDo("reply_to_email", [NoArgs EXCEPT !.msg_id = msg_id, !.body = Text],
               fate, << >>, Gmail_reply_to_email(gmail, msg_id, Text, fate))

GmailDeleteEmail ==
  /\ gop.op = "idle"
  /\ \E msg_id \in MsgIds, fate \in Fates :
       GmailDo("delete_email", [NoArgs EXCEPT !.msg_id = msg_id], fate, << >>,
               Gmail_delete_email(gmail, msg_id, fate))

GmailArchiveEmail ==
  /\ gop.op = "idle"
  /\ \E msg_id \in MsgIds, fate \in Fates :
       GmailDo("archive_email", [NoArgs EXCEPT !.msg_id = msg_id], fate, << >>,
               Gmail_archive_email(gmail, msg_id, fate))

ToggleLabelNames ==
  {lower(STARRED), STARRED, <<"W", "o", "r", "k">>, lower(INBOX), capitalize(FUN)}

GmailToggle(ids) ==
  \E msg_id \in ids, label_name \in ToggleLabelNames, action \in Actions, fate \in Fates :
    GmailDo("toggle_label_email",
            [NoArgs EXCEPT !.msg_id = msg_id, !.label_name = label_name,
                           !.action = action], fate, << >>,
            Gmail_toggle_label_email(gmail, msg_id, label_name, action, fate))

GmailToggleLabelEmail ==
  /\ gop.op = "idle"
  /\ GmailToggle(MsgIds)

\* toggle_label_email called on one message, again and again.
GmailToggleAgain == GmailToggle({<<"m", "1">>})

\* The caller takes the envelope; the client is ready for the next request.
GmailReturn ==
  /\ gop.op # "idle"
  /\ ~gop.pending
  /\ gop' = Idle
  /\ UNCHANGED <<planner, gmail, outlook, oop, settings, server, toggles>>

(***************************************************************************)
(* The Outlook mailbox behind the Graph API: the categories of each        *)
(* message, in the order they were written, and the drafts.  A request     *)
(* fails when the transport raises, when Graph answers with a status       *)
(* outside 200, 201, 202, 204 (fate), or when it names a message or a      *)
(* draft the mailbox does not hold (404).                                  *)
(***************************************************************************)
GRAPH_API == <<"https", ":", "//graph.microsoft.com/v1.0">>

OutlookInit ==
  [categories |-> [m \in MsgIds |-> << >>], drafts |-> {}]

NoFailure == [at |-> 0, how |-> "none"]

OutlookFates ==
  {NoFailure} \cup [at : 1..MaxFate, how : {"raises", "status"}]

OutlookResource(mb, id) ==
  [id |-> id,
   conversationId |-> <<"c">> \o id,
   subject |-> <<"Hello ">> \o id,
   from |-> [name |-> <<"Ann">>, address |-> <<"ann", "@", "x.org">>],
   hasAttachments |-> FALSE,
   categories |-> mb.categories[id],
   body |-> [contentType |-> "text", content |-> <<"text of ">> \o id],
   bodyPreview |-> <<"text">>,
   receivedDateTime |-> <<"2025-03-01T10", ":", "00", ":", "00Z">>]

\* The request meets this status or never gets one.
OutlookFails(mb, call, k, fate) ==
  \/ fate.at = k
  \/ /\ call.id # None
     /\ IF EndsWith(call.endpoint, <<"/send">>)
        THEN call.id \notin mb.drafts
        ELSE call.id \notin DOMAIN mb.categories

OutlookError(call, k, fate) ==
  <<"Request to ">> \o GRAPH_API \o call.endpoint \o <<" failed", ":", " ">>
    \o (IF fate.at = k /\ fate.how = "raises"
        THEN <<"Cannot connect to host">>
        ELSE IF fate.at = k THEN <<"('Service Unavailable', None)">>
        ELSE <<"('Not Found', None)">>)

OutlookEffect(mb, call) ==
  CASE call.api = "PATCH" ->
         [mb EXCEPT !.categories[call.id] = call.categories]
    [] call.api = "DELETE" ->
         [mb EXCEPT !.categories =
            [m \in (DOMAIN mb.categories) \ {call.id} |-> mb.categories[m]]]
    [] call.api = "POST" /\ call.endpoint = <<"/me/messages">> ->
         [mb EXCEPT !.drafts = @ \cup {CHOOSE d \in DraftIds : d \notin mb.drafts}]
    [] call.api = "POST" /\ EndsWith(call.endpoint, <<"/send">>) ->
         [mb EXCEPT !.drafts = @ \ {call.id}]
    [] OTHER -> mb

OutlookData(mb, call, listed) ==
  CASE call.api = "GET" /\ call.id # None -> OutlookResource(mb, call.id)
    [] call.api = "GET" ->
         [value |-> [i \in DOMAIN listed |-> OutlookResource(mb, listed[i])]]
    [] call.api = "POST" /\ call.endpoint = <<"/me/messages">> ->
         [id |-> CHOOSE d \in DraftIds : d \notin mb.drafts]
    [] OTHER -> [id |-> None]

\* _request, the k-th of an operation: the body of the answer, or RuntimeError.
Outlook_request(mb, call, k, fate, listed) ==
  IF OutlookFails(mb, call, k, fate)
  THEN [ok |-> FALSE, call |-> [call EXCEPT !.failed = TRUE], mb |-> mb,
        data |-> [id |-> None], error |-> OutlookError(call, k, fate)]
  ELSE [ok |-> TRUE, call |-> call, mb |-> OutlookEffect(mb, call),
        data |-> OutlookData(mb, call, listed), error |-> None]

(***************************************************************************)
(* OutlookClient.                                                          *)
(***************************************************************************)
Outlook_send_email(mb, to, subject, body, fate) ==
  except_Exception(
    ReturnResponse(<< >>,
                   Outlook_request(mb, [NoCall EXCEPT !.api = "POST",
                                                      !.endpoint = <<"/me/sendMail">>,
                                                      !.to = to, !.subject = subject,
                                                      !.body = body],
                                   1, fate, << >>),
                   <<"Email has been sent successfully">>))

\* draft_id = {"draftId": draft_res['id']}
ReturnDraftId(r, message) ==
  Outcome(<<r.call>>,
          IF r.ok THEN Succeeded(message, "dict", <<[draftId |-> r.data.id]>>)
          ELSE Escaped(r.error),
          r.mb)

Outlook_draft_email(mb, to, subject, body, fate) ==
  except_Exception(
    ReturnDraftId(Outlook_request(mb, [NoCall EXCEPT !.api = "POST",
                                                     !.endpoint = <<"/me/messages">>,
                                                     !.to = to, !.subject = subject,
                                                     !.body = body],
                                  1, fate, << >>),
                  <<"Email draft has been created successfully">>))

Outlook_send_draft(mb, draft_id, fate) ==
  except_Exception(
    ReturnResponse(<< >>,
                   Outlook_request(mb, [NoCall EXCEPT
                                          !.api = "POST", !.id = draft_id,
                                          !.endpoint = <<"/me/messages/">> \o draft_id
                                                         \o <<"/send">>],
                                   1, fate, << >>),
                   <<"Email draft has been sent successfully">>))

extract_important_fields(message) ==
  [id |-> message.id,
   conversation_id |-> message.conversationId,
   subject |-> message.subject,
   sender |-> message.from.name \o <<" <">> \o message.from.address \o <<">">>,
   body |-> IF message.body.contentType = "html" THEN message.bodyPreview
            ELSE message.body.content,
   hasAttachments |-> message.hasAttachments,
   categories |-> message.categories,
   receivedDateTime |-> message.receivedDateTime]

\* messages = search_res if msg_id else search_res['value'], each one extracted.
ReturnExtracted(r, msg_id) ==
  Outcome(<<r.call>>,
          IF ~r.ok THEN Escaped(r.error)
          ELSE IF msg_id # None
          THEN Succeeded(<<"Email has been searched successfully">>, "dict",
                         <<extract_important_fields(r.data)>>)
          ELSE Succeeded(<<"Email has been searched successfully">>, "list",
                         [i \in DOMAIN r.data.value |->
                            extract_important_fields(r.data.value[i])]),
          r.mb)

\* endpoint is what planner.compose_endpoint() came to, before the try block:
\* what it raises is not caught.
SearchAt(mb, endpoint, msg_id, fate, listed) ==
  IF ~endpoint.ok THEN Outcome(<< >>, Escaped(<<endpoint.err>>), mb)
  ELSE except_Exception(
         ReturnExtracted(Outlook_request(mb, [NoCall EXCEPT !.api = "GET",
                                                            !.endpoint = endpoint.val,
                                                            !.id = msg_id],
                                         1, fate, listed),
                         msg_id))

Outlook_search_emails(mb, filters, label, max_results, fate, listed) ==
  SearchAt(mb, compose_endpoint(GraphQueryPlanner(label, filters, max_results)),
           filters.msg_id, fate, listed)

\* res = await self.search_emails(...); messages = res['result']
UnpackSearch(res) == IF res.ret.kind = "exception" THEN res ELSE Unpack(res)

Outlook_read_emails(mb, max_results, days_back, fate, listed) ==
  except_Exception(
    UnpackSearch(Outlook_search_emails(
                   mb, [NoFilters EXCEPT !.after = get_after_date(days_back)], None,
                   max_results, fate, listed)))

\* POST /reply carries no payload: body is not passed on.
Outlook_reply_to_email(mb, msg_id, body, fate) ==
  except_Exception(
    ReturnResponse(<< >>,
                   Outlook_request(mb, [NoCall EXCEPT
                                          !.api = "POST", !.id = msg_id,
                                          !.endpoint = <<"/me/messages/">> \o msg_id
                                                         \o <<"/reply">>],
                                   1, fate, << >>),
                   <<"Replied to email successfully">>))

Outlook_delete_email(mb, msg_id, fate) ==
  except_Exception(
    ReturnResponse(<< >>,
                   Outlook_request(mb, [NoCall EXCEPT
                                          !.api = "DELETE", !.id = msg_id,
                                          !.endpoint = <<"/me/messages/">> \o msg_id],
                                   1, fate, << >>),
                   <<"Email has been deleted successfully">>))

Outlook_archive_email(mb, msg_id, fate) ==
  except_Exception(
    ReturnResponse(<< >>,
                   Outlook_request(mb, [NoCall EXCEPT
                                          !.api = "POST", !.id = msg_id,
                                          !.endpoint = <<"/me/messages/">> \o msg_id
                                                         \o <<"/move">>],
                                   1, fate, << >>),
                   <<"Emails have been archived successfully">>))

\* existing, after the branch on action has modified it.
ModifiedCategories(existing, label, action) ==
  IF action = "add"
  THEN IF \E i \in DOMAIN existing : existing[i] = label
       THEN existing ELSE Append(existing, label)
  ELSE SelectSeq(existing, LAMBDA c : c # label)

\* The PATCH of the updated categories and the envelope after it.
ReturnPatched(got, r, msg_id, label, action) ==
  Outcome(<<got.call, r.call>>,
          IF r.ok
          THEN Succeeded(<<"Label '">> \o label \o <<"' ", action, "ed successfully">>,
                         "dict", <<[id |-> msg_id, categories |-> r.call.categories]>>)
          ELSE Failed(<<"Failed to update label", ":", " ">> \o r.error),
          r.mb)

\* A toggle whose branch for "remove" is a plain else: every action that is not
\* "add" removes.
TogglePatched_else_removes(got, msg_id, label, action, fate) ==
  IF ~got.ok
  THEN Outcome(<<got.call>>, Failed(<<"Failed to fetch message", ":", " ">> \o got.error),
               got.mb)
  ELSE ReturnPatched(got,
         Outlook_request(got.mb,
                         [NoCall EXCEPT
                            !.api = "PATCH", !.id = msg_id,
                            !.endpoint = <<"/me/messages/">> \o msg_id,
                            !.categories = ModifiedCategories(got.data.categories,
                                                              label, action)],
                         2, fate, << >>),
         msg_id, label, action)

\* got is the GET of the message; label the normalized label name.
TogglePatched(got, msg_id, label, action, fate) ==
  IF ~got.ok
  THEN Outcome(<<got.call>>, Failed(<<"Failed to fetch message", ":", " ">> \o got.error),
               got.mb)
  ELSE IF action \notin {"add", "remove"}
  THEN Outcome(<<got.call>>, Failed(<<"Invalid action", ":", " ", action>>), got.mb)
  ELSE ReturnPatched(got,
         Outlook_request(got.mb,
                         [NoCall EXCEPT
                            !.api = "PATCH", !.id = msg_id,
                            !.endpoint = <<"/me/messages/">> \o msg_id,
                            !.categories = ModifiedCategories(got.data.categories,
                                                              label, action)],
                         2, fate, << >>),
         msg_id, label, action)

Outlook_toggle_label_email(mb, msg_id, label_name, action, fate) ==
  TogglePatched(Outlook_request(mb, [NoCall EXCEPT
                                       !.api = "GET", !.id = msg_id,
                                       !.endpoint = <<"/me/messages/">> \o msg_id],
                                1, fate, << >>),
                msg_id, capitalize(strip(label_name)), action, fate)

(***************************************************************************)
(* OutlookClient as a state machine: outlook is the mailbox, oop the       *)
(* operation last called.                                                  *)
(***************************************************************************)
OutlookDo(op, args, fate, listed, outcome) ==
  /\ oop' = Completed(op, args, fate, listed, outlook, outcome)
  /\ outlook' = oop'.post
  /\ UNCHANGED <<planner, gmail, gop, settings, server, toggles>>

OutlookSendEmail ==
  /\ oop.op = "idle"
  /\ \E fate \in OutlookFates :
       OutlookDo("send_email",
                 [NoArgs EXCEPT !.to = Address, !.subject = Text, !.body = Text],
                 fate, << >>, Outlook_send_email(outlook, Address, Text, Text, fate))

OutlookDraftEmail ==
  /\ oop.op = "idle"
  /\ Cardinality(outlook.drafts) < MaxDrafts
  /\ \E fate \in OutlookFates :
       OutlookDo("draft_email",
                 [NoArgs EXCEPT !.to = Address, !.subject = Text, !.body = Text],
                 fate, << >>, Outlook_draft_email(outlook, Address, Text, Text, fate))

OutlookSendDraft ==
  /\ oop.op = "idle"
  /\ \E draft_id \in DraftIds, fate \in OutlookFates :
       OutlookDo("send_draft", [NoArgs EXCEPT !.draft_id = draft_id], fate, << >>,
                 Outlook_send_draft(outlook, draft_id, fate))

OutlookSearchEmails ==
  \E call \in SearchCalls(oop, DOMAIN outlook.categories, OutlookFates) :
    OutlookDo("search_emails",
              [NoArgs EXCEPT !.filters = call.filters, !.label = call.label,
                             !.max_results = call.max_results], call.fate, call.listed,
              Outlook_search_emails(outlook, call.filters, call.label, call.max_results,
                                    call.fate, call.listed))

OutlookReadEmails ==
  /\ oop.op = "idle"
  /\ \E max_results \in 1..MaxTop, days_back \in {1, 5}, fate \in OutlookFates :
       \E listed \in Listings(DOMAIN outlook.categories, max_results) :
         OutlookDo("read_emails",
                   [NoArgs EXCEPT !.max_results = max_results, !.days_back = days_back],
                   fate, listed,
                   Outlook_read_emails(outlook, max_results, days_back, fate, listed))

OutlookReplyToEmail ==
  /\ oop.op = "idle"
  /\ \E msg_id \in MsgIds, fate \in OutlookFates :
       OutlookDo("reply_to_email", [NoArgs EXCEPT !.msg_id = msg_id, !.body = Text],
                 fate, << >>, Outlook_reply_to_email(outlook, msg_id, Text, fate))

OutlookDeleteEmail ==
  /\ oop.op = "idle"
  /\ \E msg_id \in MsgIds, fate \in OutlookFates :
       OutlookDo("delete_email", [NoArgs EXCEPT !.msg_id = msg_id], fate, << >>,
                 Outlook_delete_email(outlook, msg_id, fate))

OutlookArchiveEmail ==
  /\ oop.op = "idle"
  /\ \E msg_id \in MsgIds, fate \in OutlookFates :
       OutlookDo("archive_email", [NoArgs EXCEPT !.msg_id = msg_id], fate, << >>,
                 Outlook_archive_email(outlook, msg_id, fate))

OutlookLabelNames ==
  {lower(STARRED), <<" ">> \o STARRED \o <<" ">>, <<"W", "o", "r", "k">>}

OutlookToggle(ids) ==
  \E msg_id \in ids, label_name \in OutlookLabelNames, action \in Actions,
     fate \in OutlookFates :
    OutlookDo("toggle_label_email",
              [NoArgs EXCEPT !.msg_id = msg_id, !.label_name = label_name,
                             !.action = action], fate, << >>,
              Outlook_toggle_label_email(outlook, msg_id, label_name, action, fate))

OutlookToggleLabelEmail ==
  /\ oop.op = "idle"
  /\ OutlookToggle(MsgIds)

\* toggle_label_email called on one message, again and again.
OutlookToggleAgain == OutlookToggle({<<"m", "1">>})

OutlookReturn ==
  /\ oop.op # "idle"
  /\ ~oop.pending
  /\ oop' = Idle
  /\ UNCHANGED <<planner, gmail, gop, outlook, settings, server, toggles>>

NextOutlook ==
  \/ OutlookSendEmail
  \/ OutlookDraftEmail
  \/ OutlookSendDraft
  \/ OutlookSearchEmails
  \/ OutlookReadEmails
  \/ OutlookReplyToEmail
  \/ OutlookDeleteEmail
  \/ OutlookArchiveEmail
  \/ OutlookToggleLabelEmail
  \/ OutlookReturn

(***************************************************************************)
(* toggle_label_email of OutlookClient as the event loop runs it: a        *)
(* coroutine that gives way at each await.  Two calls on one message are   *)
(* in flight; between the GET of a call and its PATCH the other call may   *)
(* run.  overlapped records that the other call was between its GET and    *)
(* its PATCH at some moment of this one.                                   *)
(***************************************************************************)
Togglers == {"a", "b"}

TheOther(t) == CHOOSE u \in Togglers : u # t

NotFetched ==
  [ok |-> FALSE, call |-> NoCall, mb |-> OutlookInit, data |-> [id |-> None],
   error |-> None]

ToggleIdle ==
  [pc |-> "idle", msg_id |-> None, label_name |-> None, action |-> "none",
   fate |-> NoFailure, got |-> NotFetched, overlapped |-> FALSE, ret |-> NoEnvelope]

TogglesInit == [t \in Togglers |-> ToggleIdle]

ToggleFates == {NoFailure, [at |-> 1, how |-> "status"], [at |-> 2, how |-> "raises"]}

\* The call has been made and its GET answered: existing is what the GET read.
Fetching(label_name, action, fate, got, during) ==
  [ToggleIdle EXCEPT !.pc = "fetched", !.msg_id = got.call.id,
                     !.label_name = label_name, !.action = action, !.fate = fate,
                     !.got = got, !.overlapped = during]

\* await self._request("GET", f"/me/messages/{msg_id}")
ToggleFetch(t) ==
  /\ toggles[t].pc = "idle"
  /\ \E label_name \in OutlookLabelNames, action \in {"add", "remove"},
        fate \in ToggleFates :
       toggles' =
         [u \in Togglers |->
            IF u = t
            THEN Fetching(label_name, action, fate,
                          Outlook_request(outlook,
                                          [NoCall EXCEPT
                                             !.api = "GET", !.id = <<"m", "1">>,
                                             !.endpoint = <<"/me/messages/", "m", "1">>],
                                          1, fate, << >>),
                          toggles[TheOther(t)].pc = "fetched")
            ELSE [toggles[u] EXCEPT !.overlapped = @ \/ toggles[u].pc = "fetched"]]
  /\ UNCHANGED <<planner, gmail, gop, outlook, oop, settings, server>>

\* The rest of the call, run on the mailbox as it is now.
Patching(t, outcome) ==
  /\ toggles' = [toggles EXCEPT ![t].pc = "done", ![t].ret = outcome.ret]
  /\ outlook' = outcome.mb

\* label = label_name.strip().capitalize(), the branch on action, and
\* await self._request("PATCH", ..., json={"categories": existing})
TogglePatch(t) ==
  /\ toggles[t].pc = "fetched"
  /\ Patching(t, TogglePatched([toggles[t].got EXCEPT !.mb = outlook],
                               toggles[t].msg_id,
                               capitalize(strip(toggles[t].label_name)),
                               toggles[t].action, toggles[t].fate))
  /\ UNCHANGED <<planner, gmail, gop, oop, settings, server>>

ToggleReturn(t) ==
  /\ toggles[t].pc = "done"
  /\ toggles' = [toggles EXCEPT ![t] = ToggleIdle]
  /\ UNCHANGED <<planner, gmail, gop, outlook, oop, settings, server>>

(***************************************************************************)
(* The API process of src/api/main.py: every client route declares         *)
(* client=Depends(get_client), which FastAPI resolves anew for each        *)
(* request.  A token file is missing, expired (with a refresh token) or    *)
(* valid.                                                                  *)
(***************************************************************************)
MaxRequests == 3

Providers == {"google", "outlook"}

Routes ==
  {"/send_email", "/draft_email", "/send_draft", "/read_emails", "/search_emails",
   "/reply_to_email", "/delete_email", "/archive_email", "/toggle_label"}

TokenStates == {"missing", "expired", "valid"}

NoClient == [provider |-> "none", serial |-> 0, route |-> "none"]

ServerInit ==
  [handled |-> 0, constructed |-> << >>, client |-> NoClient,
   tokens |-> [p \in Providers |-> "valid"]]

\* _load_or_authenticate and _get_gmail_service_sync: a valid token is read, an
\* expired one is refreshed and stored, and with no token the consent flow
\* runs and its token is stored.
load_or_authenticate(token) ==
  CASE token = "valid" -> "loaded"
    [] token = "expired" -> "refreshed"
    [] OTHER -> "consented"

\* GmailClient(...) or OutlookClient(...): __init__ loads the token.
Constructed(provider, tokens) ==
  [provider |-> provider, how |-> load_or_authenticate(tokens[provider])]

\* get_client(provider): the clients constructed so far, this one included.
get_client(srv, provider) == Append(srv.constructed, Constructed(provider, srv.tokens))

ServerUnused == UNCHANGED <<planner, gmail, gop, outlook, oop, settings, toggles>>

\* One request on a client route: the dependency is resolved, then the route
\* calls the operation on the client it was given.
HandleRequest ==
  /\ server.handled < MaxRequests
  /\ \E provider \in Providers, route \in Routes :
       server' = [server EXCEPT
                    !.handled = @ + 1,
                    !.constructed = get_client(server, provider),
                    !.client = [provider |-> provider,
                                serial |-> Len(get_client(server, provider)),
                                route |-> route],
                    !.tokens[provider] = "valid"]
  /\ ServerUnused

\* Time passes beyond expires_at of a stored token.
TokenExpires ==
  /\ \E provider \in Providers :
       /\ server.tokens[provider] = "valid"
       /\ server' = [server EXCEPT !.tokens[provider] = "expired"]
  /\ ServerUnused

(***************************************************************************)
(* The settings store: load_email_settings and update_email_settings of    *)
(* src/api/main.py over the EmailSettings record.  A Python value and a    *)
(* JSON value are each a type and a text.                                  *)
(***************************************************************************)
PyStr(text) == [type |-> "str", text |-> text]

PyInt(text) == [type |-> "int", text |-> text]

PyBool(text) == [type |-> "bool", text |-> text]

Provider(value) == [type |-> "Provider", text |-> value]

Absent == [type |-> "absent", text |-> ""]

\* EmailSettings.model_fields, in the order of the class body.
model_fields ==
  <<"language", "tone", "writing_style", "sender_name", "organization_name",
    "include_signature", "signature", "preferred_greeting", "auto_adjust_tone",
    "include_thread_context", "character_limit", "prompt_prefix", "default_provider">>

FieldNames == {model_fields[i] : i \in DOMAIN model_fields}

\* The keys a document or a request body carries here: the fields and one other.
Keys == FieldNames \cup {"bogus"}

NoMembers == [k \in Keys |-> Absent]

EmailSettingsDefaults ==
  [language |-> PyStr("en"),
   tone |-> PyStr("formal"),
   writing_style |-> PyStr("clear_and_concise"),
   sender_name |-> PyStr("Astro"),
   organization_name |-> PyStr("Kalima Tech"),
   include_signature |-> PyBool("True"),
   signature |-> PyStr("Best regards,\\n{{sender_name}}\\n{{organization_name}}"),
   preferred_greeting |-> PyStr("Dear {{recipient_name}},"),
   auto_adjust_tone |-> PyBool("True"),
   include_thread_context |-> PyBool("True"),
   character_limit |-> PyInt("1000"),
   prompt_prefix |-> PyStr("You are an AI email assistant for {{organization_name}}. Keep messages professional, polite, and to the point."),
   default_provider |-> Provider("google")]

\* The annotation of a field, as the test pydantic applies to a value that needs
\* no conversion (a value pydantic would convert, such as "5" for an int, is
\* none of the inputs drawn below).
Literal(field) ==
  CASE field = "language" -> {"en", "ar", "fr"}
    [] field = "tone" -> {"formal", "informal", "friendly", "polite", "technical"}
    [] field = "writing_style" -> {"clear_and_concise", "detailed", "persuasive"}

Annotation(field, v) ==
  CASE field \in {"language", "tone", "writing_style"} ->
         v.type = "str" /\ v.text \in Literal(field)
    [] field \in {"include_signature", "auto_adjust_tone", "include_thread_context"} ->
         v.type = "bool"
    [] field = "character_limit" -> v.type = "int"
    [] field = "default_provider" ->
         \/ v.type = "Provider"
         \/ v.type = "str" /\ v.text \in {"google", "outlook"}
    [] OTHER -> v.type = "str"

\* The value a validated field holds: the member of Provider for its value.
Validated(field, v) ==
  IF field = "default_provider" THEN Provider(v.text) ELSE v

\* EmailSettings(**data): a key that is no field is ignored, a field left out
\* takes its default, a value that fails its annotation raises ValidationError.
EmailSettings(data) ==
  IF \E f \in FieldNames : data[f] # Absent /\ ~Annotation(f, data[f])
  THEN Raised("ValidationError")
  ELSE Returned([f \in FieldNames |->
                   IF data[f] = Absent THEN EmailSettingsDefaults[f]
                   ELSE Validated(f, data[f])])

\* model_dump(): the dict of the fields (no other key is present).
model_dump(record) ==
  [k \in Keys |-> IF k \in FieldNames THEN record[k] ELSE Absent]

\* json.dumps and json.loads of one value.  Provider is a str, so its member
\* is encoded as the string of its value.
json_dumps_value(v) ==
  CASE v.type = "str" -> [type |-> "string", text |-> v.text]
    [] v.type = "Provider" -> [type |-> "string", text |-> v.text]
    [] v.type = "int" -> [type |-> "number", text |-> v.text]
    [] v.type = "bool" /\ v.text = "True" -> [type |-> "true", text |-> "true"]
    [] v.type = "bool" /\ v.text = "False" -> [type |-> "false", text |-> "false"]
    [] OTHER -> Absent

json_loads_value(t) ==
  CASE t.type = "string" -> PyStr(t.text)
    [] t.type = "number" -> PyInt(t.text)
    [] t.type = "true" -> PyBool("True")
    [] t.type = "false" -> PyBool("False")
    [] OTHER -> Absent

\* The number of characters of a text inside a JSON string (a line feed is
\* written as two characters).
EscapedLen ==
  [text \in {"en", "ar", "fr"} |-> 2]
  @@ [text \in {"rude", "many"} |-> 4]
  @@ [text \in {"Astro"} |-> 5]
  @@ [text \in {"formal", "polite", "google"} |-> 6]
  @@ [text \in {"outlook"} |-> 7]
  @@ [text \in {"informal", "friendly", "detailed"} |-> 8]
  @@ [text \in {"technical", "persuasive"} |-> 10]
  @@ [text \in {"Kalima Tech"} |-> 11]
  @@ [text \in {"clear_and_concise"} |-> 17]
  @@ [text \in {"Dear {{recipient_name}},"} |-> 24]
  @@ [text \in {"Best regards,\\n{{sender_name}}\\n{{organization_name}}"} |-> 53]
  @@ [text \in {"You are an AI email assistant for {{organization_name}}. Keep messages professional, polite, and to the point."} |-> 110]

NumberLen ==
  [text \in {"1"} |-> 1] @@ [text \in {"500"} |-> 3] @@ [text \in {"1000"} |-> 4]

TokenLen(t) ==
  CASE t.type = "string" -> EscapedLen[t.text] + 2
    [] t.type = "number" -> NumberLen[t.text]
    [] t.type = "true" -> 4
    [] t.type = "false" -> 5
    [] OTHER -> 0

RECURSIVE TokensLen(_, _)
TokensLen(members, keys) ==
  IF keys = {} THEN 0
  ELSE LET k == CHOOSE x \in keys : TRUE
       IN TokenLen(members[k]) + TokensLen(members, keys \ {k})

\* What the settings file holds: nothing (the file is missing), bytes that are
\* no UTF-8 text, text that is no JSON, a JSON array, or a JSON object.  The
\* length of an object counts its values: the keys and the punctuation are the
\* same in every document json.dumps writes.
FileMissing == [form |-> "missing", members |-> NoMembers, length |-> 0]

Undecodable == [form |-> "undecodable", members |-> NoMembers, length |-> 2]

NotJson == [form |-> "text", members |-> NoMembers, length |-> 4]

EmptyFile == [form |-> "text", members |-> NoMembers, length |-> 0]

JsonArray == [form |-> "array", members |-> NoMembers, length |-> 2]

JsonObject(members) ==
  [form |-> "object", members |-> members, length |-> TokensLen(members, Keys)]

\* json.dumps(updated.model_dump(), indent=2, ensure_ascii=False)
json_dumps(data) == JsonObject([k \in Keys |-> json_dumps_value(data[k])])

\* json.loads(content): JSONDecodeError for text that is no JSON.
json_loads(content) ==
  IF content.form = "text" THEN Raised("JSONDecodeError")
  ELSE Returned([k \in Keys |-> json_loads_value(content.members[k])])

\* What a call of the settings store gives its caller: a record, the pair
\* ("error", message), or an exception that reaches the caller.
NoRecord == [f \in FieldNames |-> Absent]

NoReturn == [kind |-> "none", record |-> NoRecord, message |-> << >>]

ReturnRecord(record) == [kind |-> "record", record |-> record, message |-> << >>]

ErrorPair(message) == [kind |-> "error", record |-> NoRecord, message |-> message]

Propagated(message) == [kind |-> "raised", record |-> NoRecord, message |-> message]

\* load_email_settings when open() raises FileNotFoundError.
load_missing == ReturnRecord(EmailSettings(NoMembers).val)

ValidatedOrDefaults(validated) ==
  IF validated.ok THEN ReturnRecord(validated.val) ELSE load_missing

\* load_email_settings from the content f.read() returned.  The except clause
\* names FileNotFoundError, json.JSONDecodeError and ValidationError: the
\* UnicodeDecodeError of the read and the TypeError of ** on a value that is no
\* mapping are none of them.
\* A load that never builds the record of the file: the defaults, whatever it reads.
load_defaults(content) ==
  CASE content.form = "undecodable" -> Propagated(<<"UnicodeDecodeError">>)
    [] content.form = "array" -> Propagated(<<"TypeError">>)
    [] OTHER -> load_missing

load_content(content) ==
  CASE content.form = "undecodable" -> Propagated(<<"UnicodeDecodeError">>)
    [] content.form = "array" -> Propagated(<<"TypeError">>)
    [] content.form = "text" -> load_missing
    [] OTHER -> ValidatedOrDefaults(EmailSettings(json_loads(content).val))

\* The loop over partial_settings.items(): a key of the schema is overlaid, the
\* first other key raises ValueError.
any_key(key) == key \in Keys

known_field(key) == key \in FieldNames

merge_nothing(merged, items) == Returned(merged)

RECURSIVE merge_items(_, _)
merge_items(merged, items) ==
  IF items = << >> THEN Returned(merged)
  ELSE IF known_field(items[1].key)
       THEN merge_items([merged EXCEPT ![items[1].key] = items[1].value], Tail(items))
       ELSE Raised(<<"Invalid setting '", items[1].key, "'">>)

\* update_email_settings from the record its load returned to the open of the
\* file for writing: the merged and validated record, or the error pair.
ValidatedOrError(validated) ==
  IF validated.ok THEN ReturnRecord(validated.val)
  ELSE ErrorPair(<<validated.err>>)

MergedOrError(merged) ==
  IF merged.ok THEN ValidatedOrError(EmailSettings(merged.val))
  ELSE ErrorPair(merged.err)

update_from_defaults(current, partial_settings) ==
  IF current.kind = "raised" THEN ErrorPair(current.message)
  ELSE MergedOrError(merge_items(model_dump(EmailSettingsDefaults), partial_settings))

update_merge(current, partial_settings) ==
  IF current.kind = "raised" THEN ErrorPair(current.message)
  ELSE MergedOrError(merge_items(model_dump(current.record), partial_settings))

\* f.write on a handle opened with "w": the handle writes from offset 0 and
\* truncates nothing, so what another handle wrote past the end of this
\* document stays in the file, which is then no JSON.
write_at_start(file, document) ==
  IF file.length > document.length
  THEN [form |-> "text", members |-> NoMembers, length |-> file.length]
  ELSE document

\* The requests in flight, and where each stands.
Callers == {"a", "b"}

SettingsIdle ==
  [op |-> "idle", pc |-> "idle", partial |-> << >>, pre |-> FileMissing,
   content |-> FileMissing, updated |-> NoRecord, ret |-> NoReturn]

\* The calls one behaviour makes of the settings store.
MaxCalls == 3

SettingsInit ==
  [file |-> FileMissing, calls |-> [c \in Callers |-> SettingsIdle], made |-> 0]

Item(key, value) == [key |-> key, value |-> value]

Partials ==
  {<<Item("tone", PyStr("friendly"))>>,
   <<Item("character_limit", PyInt("500"))>>,
   <<Item("default_provider", PyStr("outlook")), Item("include_signature", PyBool("False"))>>,
   <<Item("bogus", PyInt("1"))>>,
   <<Item("tone", PyStr("friendly")), Item("bogus", PyInt("1"))>>,
   <<Item("bogus", PyInt("1")), Item("tone", PyStr("friendly"))>>,
   <<Item("tone", PyStr("rude"))>>,
   <<Item("character_limit", PyStr("many"))>>}

Stored ==
  json_dumps(model_dump([EmailSettingsDefaults EXCEPT
                           !.tone = PyStr("informal"), !.language = PyStr("fr")]))

FileStates ==
  {FileMissing, Undecodable, NotJson, JsonArray, Stored,
   JsonObject([NoMembers EXCEPT !.tone = [type |-> "string", text |-> "polite"],
                                !.bogus = [type |-> "number", text |-> "1"]]),
   JsonObject([Stored.members EXCEPT !.tone = [type |-> "string", text |-> "rude"]])}

\* The step of a call that ends it, and the step that leaves it at pc.
Finish(c, call, ret) ==
  settings' = [settings EXCEPT !.calls[c] = [call EXCEPT !.pc = "done", !.ret = ret],
                               !.made = IF call.pc = "idle" THEN @ + 1 ELSE @]

\* An update whose load has returned: it ends with the error pair, or it goes on
\* to open the file for writing.
Merge(c, call, result) ==
  IF result.kind = "error" THEN Finish(c, call, result)
  ELSE settings' = [settings EXCEPT
                      !.calls[c] = [call EXCEPT !.pc = "merged", !.updated = result.record],
                      !.made = IF call.pc = "idle" THEN @ + 1 ELSE @]

\* aiofiles.open(SETTINGS_PATH, "r"): a missing file ends the load at once.
Open(c, call) ==
  IF settings.file.form = "missing"
  THEN IF call.op = "load" THEN Finish(c, call, load_missing)
       ELSE Merge(c, call, update_merge(load_missing, call.partial))
  ELSE settings' = [settings EXCEPT !.calls[c] = [call EXCEPT !.pc = "opened"],
                                    !.made = @ + 1]

Unused == UNCHANGED <<planner, gmail, gop, outlook, oop, server, toggles>>

Ready(c) == settings.calls[c].pc = "idle" /\ settings.made < MaxCalls

LoadEmailSettings(c) ==
  /\ Ready(c)
  /\ Open(c, [SettingsIdle EXCEPT !.op = "load", !.pre = settings.file])
  /\ Unused

UpdateEmailSettings(c) ==
  /\ Ready(c)
  /\ \E partial_settings \in Partials :
       Open(c, [SettingsIdle EXCEPT !.op = "update", !.partial = partial_settings,
                                    !.pre = settings.file])
  /\ Unused

\* content = await f.read(), and what follows it up to the next await.
Read(c, call) ==
  IF call.op = "load" THEN Finish(c, call, load_content(call.content))
  ELSE Merge(c, call, update_merge(load_content(call.content), call.partial))

ReadSettings(c) ==
  /\ settings.calls[c].pc = "opened"
  /\ Read(c, [settings.calls[c] EXCEPT !.content = settings.file])
  /\ Unused

\* aiofiles.open(SETTINGS_PATH, "w") creates the file or truncates it.
OpenForWriting(c) ==
  /\ settings.calls[c].pc = "merged"
  /\ settings' = [settings EXCEPT !.file = EmptyFile, !.calls[c].pc = "truncated"]
  /\ Unused

\* await f.write(...), the close of the file, and return updated.
WriteSettings(c) ==
  /\ settings.calls[c].pc = "truncated"
  /\ settings' = [settings EXCEPT
                    !.file = write_at_start(settings.file,
                                            json_dumps(model_dump(settings.calls[c].updated))),
                    !.calls[c].pc = "done",
                    !.calls[c].ret = ReturnRecord(settings.calls[c].updated)]
  /\ Unused

SettingsReturn(c) ==
  /\ settings.calls[c].pc = "done"
  /\ settings' = [settings EXCEPT !.calls[c] = SettingsIdle]
  /\ Unused

InitSettings ==
  /\ planner = PlannerIdle
  /\ gmail = GmailInit
  /\ gop = Idle
  /\ outlook = OutlookInit
  /\ oop = Idle
  /\ settings \in [file : FileStates, calls : {[c \in Callers |-> SettingsIdle]},
                   made : {0}]
  /\ server = ServerInit
  /\ toggles = TogglesInit

NextSettings ==
  \/ \E c \in Callers : LoadEmailSettings(c)
  \/ \E c \in Callers : UpdateEmailSettings(c)
  \/ \E c \in Callers : ReadSettings(c)
  \/ \E c \in Callers : OpenForWriting(c)
  \/ \E c \in Callers : WriteSettings(c)
  \/ \E c \in Callers : SettingsReturn(c)

SpecSettings == InitSettings /\ [][NextSettings]_vars

\* One caller loads and updates, the other only loads: no update has a
\* concurrent writer.
NextOneWriter ==
  \/ \E c \in Callers : LoadEmailSettings(c)
  \/ UpdateEmailSettings("a")
  \/ \E c \in Callers : ReadSettings(c)
  \/ \E c \in Callers : OpenForWriting(c)
  \/ \E c \in Callers : WriteSettings(c)
  \/ \E c \in Callers : SettingsReturn(c)

SpecOneWriter == InitSettings /\ [][NextOneWriter]_vars

InitServer ==
  /\ planner = PlannerIdle
  /\ gmail = GmailInit
  /\ gop = Idle
  /\ outlook = OutlookInit
  /\ oop = Idle
  /\ settings = SettingsInit
  /\ server \in [handled : {0}, constructed : {<< >>}, client : {NoClient},
                 tokens : [Providers -> TokenStates]]
  /\ toggles = TogglesInit

NextServer ==
  \/ HandleRequest
  \/ TokenExpires

SpecServer == InitServer /\ [][NextServer]_vars

(***************************************************************************)
(* Specifications.                                                         *)
(***************************************************************************)
\* Two calls of the Outlook toggle_label_email on message m1, interleaved.
InitToggles ==
  /\ planner = PlannerIdle
  /\ gmail = GmailInit
  /\ gop = Idle
  /\ outlook = OutlookInit
  /\ oop = Idle
  /\ settings = SettingsInit
  /\ server = ServerInit
  /\ toggles = TogglesInit

NextToggles ==
  \/ \E t \in Togglers : ToggleFetch(t)
  \/ \E t \in Togglers : TogglePatch(t)
  \/ \E t \in Togglers : ToggleReturn(t)

SpecToggles == InitToggles /\ [][NextToggles]_vars

InitClients ==
  /\ planner = PlannerIdle
  /\ gmail = GmailInit
  /\ gop = Idle
  /\ outlook = OutlookInit
  /\ oop = Idle
  /\ settings = SettingsInit
  /\ server = ServerInit
  /\ toggles = TogglesInit

NextGmail ==
  \/ GmailSendEmail
  \/ GmailDraftEmail
  \/ GmailSendDraft
  \/ GmailSearchEmails
  \/ GmailReadEmails
  \/ GmailReplyToEmail
  \/ GmailDeleteEmail
  \/ GmailArchiveEmail
  \/ GmailToggleLabelEmail
  \/ GmailReturn

SpecGmail == InitClients /\ [][NextGmail]_vars

SpecOutlook == InitClients /\ [][NextOutlook]_vars

\* get_client builds the client of the configured provider: the operations of
\* one client run while the other client has not been used.
GmailConfigured == outlook = OutlookInit /\ oop.op = "idle"

OutlookConfigured == gmail = GmailInit /\ gop.op = "idle"

NextClients ==
  \/ GmailConfigured /\ GmailSendEmail
  \/ GmailConfigured /\ GmailDraftEmail
  \/ GmailConfigured /\ GmailSendDraft
  \/ GmailConfigured /\ GmailSearchEmails
  \/ GmailConfigured /\ GmailReadEmails
  \/ GmailConfigured /\ GmailReplyToEmail
  \/ GmailConfigured /\ GmailDeleteEmail
  \/ GmailConfigured /\ GmailArchiveEmail
  \/ GmailConfigured /\ GmailToggleLabelEmail
  \/ GmailConfigured /\ GmailReturn
  \/ OutlookConfigured /\ OutlookSendEmail
  \/ OutlookConfigured /\ OutlookDraftEmail
  \/ OutlookConfigured /\ OutlookSendDraft
  \/ OutlookConfigured /\ OutlookSearchEmails
  \/ OutlookConfigured /\ OutlookReadEmails
  \/ OutlookConfigured /\ OutlookReplyToEmail
  \/ OutlookConfigured /\ OutlookDeleteEmail
  \/ OutlookConfigured /\ OutlookArchiveEmail
  \/ OutlookConfigured /\ OutlookToggleLabelEmail
  \/ OutlookConfigured /\ OutlookReturn

SpecClients == InitClients /\ [][NextClients]_vars

\* One message, and toggle_label_email called on it again and again.
SpecGmailToggle == InitClients /\ [][GmailToggleAgain]_vars

SpecOutlookToggle == InitClients /\ [][OutlookToggleAgain]_vars

\* One query: a call of the planner, or a search put to one of the clients.
GmailSearchRequests ==
  [filters : FilterInputs, label : {None, STARRED, lower(WORK)},
   max_results : 1..MaxTop, fate : {0, 1}, listed : {<< >>, <<(<<"m", "1">>)>>}]

OutlookSearchRequests ==
  [filters : FilterInputs, label : {None, STARRED, lower(WORK)},
   max_results : 1..MaxTop, fate : {NoFailure, [at |-> 1, how |-> "status"]},
   listed : {<< >>, <<(<<"m", "1">>)>>}]

InitQuery ==
  /\ gmail = GmailInit
  /\ outlook = OutlookInit
  /\ settings = SettingsInit
  /\ server = ServerInit
  /\ toggles = TogglesInit
  /\ \/ planner \in ComposeCalls \cup ToIsoCalls /\ gop = Idle /\ oop = Idle
     \/ /\ planner = PlannerIdle
        /\ gop \in {PendingSearch(call) : call \in GmailSearchRequests}
        /\ oop = Idle
     \/ /\ planner = PlannerIdle
        /\ gop = Idle
        /\ oop \in {PendingSearch(call) : call \in OutlookSearchRequests}

NextQuery ==
  \/ CallComposeEndpoint
  \/ CallToIso8601
  \/ gop.pending /\ GmailSearchEmails
  \/ oop.pending /\ OutlookSearchEmails

SpecQuery == InitQuery /\ [][NextQuery]_vars

(***************************************************************************)
(* Properties of the query planner and of the Gmail query.                 *)
(***************************************************************************)
ComposeAnswered == planner.fn = "compose_endpoint" /\ planner.done

ToIsoAnswered == planner.fn = "to_iso8601" /\ planner.done

GmailSearched == gop.op = "search_emails" /\ ~gop.pending

OutlookSearched == oop.op = "search_emails" /\ ~oop.pending

\* The dates of the calendar, written as '%Y/%m/%d' reads them, each with the
\* instant that stands for it.
CalendarDates == {src \in DateSources : WellFormed(src)}

ValidDates == {DateText(src) : src \in CalendarDates}

IsoOfDate ==
  {<<DateText(src),
     Pad4(src.y) \o <<"-">> \o Pad2(src.m) \o <<"-">> \o Pad2(src.d)
       \o <<"T00", ":", "00", ":", "00Z">>>> : src \in CalendarDates}

DatesValid(filters) ==
  /\ filters.after \in {None} \cup ValidDates
  /\ filters.before \in {None} \cup ValidDates

FolderLabels ==
  [k \in {INBOX, SENT, DRAFT, SPAM, TRASH, ARCHIVE} |->
     CASE k = INBOX -> "Inbox"
       [] k = SENT -> "SentItems"
       [] k = DRAFT -> "Drafts"
       [] k = SPAM -> "JunkEmail"
       [] k = TRASH -> "DeletedItems"
       [] k = ARCHIVE -> "Archive"]

CategoryClause == <<"categories/any(c">>

\* categories/any(c:c eq '<name>') as it stands in the endpoint, ":" escaped.
CategoryClauseOf(name) == <<"categories/any(c", "%3A", "c eq '">> \o name \o <<"')">>

\* C1: message-id dominance.  Whenever msg_id is set, compose_endpoint returns
\* exactly /me/messages/<msg_id>, whatever the label, the other filters (dates
\* that are not dates included) and max_results are; and the Gmail search_emails
\* makes one call, a messages.get of that id, and no messages.list.
C1_MessageIdDominance ==
  /\ (ComposeAnswered /\ planner.filters.msg_id # None) =>
       planner.out = Returned(<<"/me/messages/">> \o planner.filters.msg_id)
  /\ (GmailSearched /\ gop.args.filters.msg_id # None) =>
       /\ Len(gop.calls) = 1
       /\ gop.calls[1].api = "messages.get"
       /\ gop.calls[1].id = gop.args.filters.msg_id

\* msg_id set beside a folder label and a date that is not one.
C1_Witness ==
  /\ ComposeAnswered
  /\ planner.filters.msg_id = <<"m", "1">>
  /\ planner.label = lower(IMPORTANT)
  /\ planner.filters.after \in BadDates
  /\ planner.out.ok

\* C2: with msg_id unset and a label that upper-cases to INBOX, SENT, DRAFT, SPAM,
\* TRASH or ARCHIVE, the endpoint lies under /me/mailFolders/<folder>/messages
\* (Inbox, SentItems, Drafts, JunkEmail, DeletedItems, Archive) and carries no
\* categories/any clause, for every combination of the other filters; an endpoint
\* is returned whenever after and before are unset or dates of the calendar.
C2_FolderLabelsScoped ==
  (/\ ComposeAnswered
   /\ planner.filters.msg_id = None
   /\ planner.label # None
   /\ upper(planner.label) \in DOMAIN FolderLabels) =>
    /\ DatesValid(planner.filters) => planner.out.ok
    /\ planner.out.ok =>
         /\ StartsWith(planner.out.val,
                       <<"/me/mailFolders/", FolderLabels[upper(planner.label)],
                         "/messages", "?">>)
         /\ ~Contains(planner.out.val, CategoryClause)

\* "sent" in lower case, with every other filter set, goes to SentItems.
C2_Witness ==
  /\ ComposeAnswered
  /\ planner.label = lower(SENT)
  /\ planner.filters.msg_id = None
  /\ planner.filters.sender # None
  /\ planner.filters.subject # None
  /\ planner.filters.has_attachment
  /\ planner.filters.unread
  /\ planner.filters.after \in GoodDates
  /\ planner.filters.before \in GoodDates
  /\ StartsWith(planner.out.val, <<"/me/mailFolders/", "SentItems", "/messages">>)

\* C3: with msg_id unset and a non-empty label whose upper-cased form is none of
\* the seven keys of the folder mapping, the endpoint queries /me/messages, has no
\* mailFolders segment, and its $filter holds exactly one category clause,
\* categories/any(c:c eq '<label upper-cased>').
C3_OtherLabelsAreCategories ==
  (/\ ComposeAnswered
   /\ planner.filters.msg_id = None
   /\ planner.label # None
   /\ upper(planner.label) \notin (DOMAIN FolderLabels) \cup {IMPORTANT}) =>
    /\ DatesValid(planner.filters) => planner.out.ok
    /\ planner.out.ok =>
         /\ StartsWith(planner.out.val, <<"/me/messages", "?", "$filter=">>)
         /\ ~Contains(planner.out.val, <<"/me/mailFolders/">>)
         /\ Cardinality(Occurrences(planner.out.val, CategoryClause)) = 1
         /\ Contains(planner.out.val, CategoryClauseOf(upper(planner.label)))

\* A user-defined label given in lower case.
C3_Witness ==
  /\ ComposeAnswered
  /\ planner.label = lower(WORK)
  /\ planner.filters.msg_id = None
  /\ planner.filters.sender # None
  /\ Contains(planner.out.val, CategoryClauseOf(WORK))

\* C4: with msg_id unset, IMPORTANT is the only label whose endpoint has both the
\* folder scope (Inbox) and a category clause (category 'Important'); every other
\* non-empty label has exactly one of the two, never both and never neither.
C4_OnlyImportantIsDoubleRouted ==
  (/\ ComposeAnswered
   /\ planner.filters.msg_id = None
   /\ planner.label # None) =>
    /\ DatesValid(planner.filters) => planner.out.ok
    /\ planner.out.ok =>
         IF upper(planner.label) = IMPORTANT
         THEN /\ StartsWith(planner.out.val,
                            <<"/me/mailFolders/", "Inbox", "/messages", "?">>)
              /\ Cardinality(Occurrences(planner.out.val, CategoryClause)) = 1
              /\ Contains(planner.out.val,
                          CategoryClauseOf(<<"I">> \o lower(Tail(IMPORTANT))))
         ELSE Contains(planner.out.val, <<"/me/mailFolders/">>)
                # Contains(planner.out.val, CategoryClause)

\* IMPORTANT, folder-scoped and filtered by category at once.
C4_Witness ==
  /\ ComposeAnswered
  /\ planner.label = capitalize(IMPORTANT)
  /\ planner.filters.msg_id = None
  /\ Contains(planner.out.val, <<"/me/mailFolders/">>)
  /\ Contains(planner.out.val, CategoryClause)

QueryTokens(filters, label) ==
  <<[set |-> filters.sender # None, text |-> <<"from", ":">> \o filters.sender],
    [set |-> filters.subject # None, text |-> <<"subject", ":">> \o filters.subject],
    [set |-> filters.has_attachment, text |-> <<"has", ":", "attachment">>],
    [set |-> filters.after # None, text |-> <<"after", ":">> \o filters.after],
    [set |-> filters.before # None, text |-> <<"before", ":">> \o filters.before],
    [set |-> filters.unread, text |-> <<"is", ":", "unread">>],
    [set |-> label # None, text |-> <<"label", ":">> \o label]>>

RECURSIVE SpaceJoined(_)
SpaceJoined(tokens) ==
  IF tokens = << >> THEN << >>
  ELSE IF Len(tokens) = 1 THEN tokens[1].text
  ELSE tokens[1].text \o <<" ">> \o SpaceJoined(Tail(tokens))

\* C6: with msg_id unset, the q of the Gmail messages.list is the tokens from:,
\* subject:, has:attachment, after:, before:, is:unread, label: in that order,
\* joined by single spaces, a token being there if and only if its filter is set;
\* sender a@b.com with unread gives "from:a@b.com is:unread" and no filter at all
\* gives the empty string.
C6_GmailQueryTokens ==
  (GmailSearched /\ gop.args.filters.msg_id = None) =>
    /\ gop.calls[1].api = "messages.list"
    /\ gop.calls[1].q =
         SpaceJoined(SelectSeq(QueryTokens(gop.args.filters, gop.args.label),
                               LAMBDA t : t.set))
    /\ (gop.args.filters = [NoFilters EXCEPT !.sender = Address, !.unread = TRUE]
          /\ gop.args.label = None) =>
         gop.calls[1].q = <<"from", ":", "a", "@", "b", ".", "c", "o", "m", " ",
                            "is", ":", "unread">>
    /\ (gop.args.filters = NoFilters /\ gop.args.label = None) =>
         gop.calls[1].q = << >>

\* Every token at once.
C6_Witness ==
  /\ GmailSearched
  /\ gop.args.filters.msg_id = None
  /\ gop.args.filters.sender # None
  /\ gop.args.filters.subject # None
  /\ gop.args.filters.has_attachment
  /\ gop.args.filters.after # None
  /\ gop.args.filters.before # None
  /\ gop.args.filters.unread
  /\ gop.args.label = STARRED
  /\ Len(gop.calls) >= 1
  /\ StartsWith(gop.calls[1].q, <<"from", ":">>)
  /\ EndsWith(gop.calls[1].q, <<"label", ":">> \o STARRED)

(***************************************************************************)
(* Properties of the label toggle and of the failure policy.               *)
(***************************************************************************)
\* Every call the operation made on its transport was answered.
Worked(op) == \A i \in DOMAIN op.calls : ~op.calls[i].failed

NamesAccountLabel(name) ==
  \E i \in DOMAIN GmailLabels : lower(GmailLabels[i].name) = lower(name)

AccountLabelId(name) ==
  GmailLabels[CHOOSE i \in DOMAIN GmailLabels :
                lower(GmailLabels[i].name) = lower(name)].id

ModifyCalls(op) == {i \in DOMAIN op.calls : op.calls[i].api = "messages.modify"}

\* One call of the Gmail toggle_label_email, from the account before it to the
\* account after it, with the call before it in gop.
GmailToggleStep ==
  LET call == gop'
      msg == call.args.msg_id
      id == AccountLabelId(call.args.label_name)
      status == call.ret.operation_status
  IN  (/\ call.op = "toggle_label_email"
       /\ NamesAccountLabel(call.args.label_name)
       /\ call.args.action \in {"add", "remove"}
       /\ Worked(call)) =>
        /\ call.args.action = "add" =>
             /\ status = "SUCCEEDED" <=> id \notin gmail.labelIds[msg]
             /\ status = "SUCCEEDED" => id \in gmail'.labelIds[msg]
        /\ call.args.action = "remove" =>
             /\ status = "SUCCEEDED" <=> id \in gmail.labelIds[msg]
             /\ status = "SUCCEEDED" => id \notin gmail'.labelIds[msg]
        /\ status \in {"SUCCEEDED", "FAILED"}
        /\ status = "FAILED" =>
             /\ ModifyCalls(call) = {}
             /\ gmail'.labelIds = gmail.labelIds
        /\ (/\ call.args.action = "add"
            /\ gop.op = "toggle_label_email"
            /\ gop.args = call.args
            /\ gop.ret.operation_status = "SUCCEEDED") =>
             status = "FAILED"

\* C7: over any sequence of Gmail toggle_label_email calls on one message with a
\* label name of the account, each call answered by the transport: add returns
\* SUCCEEDED if and only if the label was absent before the call, and it is there
\* after it; remove returns SUCCEEDED if and only if the label was there, and it
\* is absent after it; a FAILED call issues no messages.modify and leaves the
\* labels of the message as they were; add called twice returns SUCCEEDED and
\* then FAILED.
C7_GmailToggleSequence == [][GmailToggleStep]_vars

\* The second of two adds: FAILED, the label on the message since the first.
C7_Witness ==
  /\ gop.op = "toggle_label_email"
  /\ gop.args.action = "add"
  /\ gop.args.label_name = lower(STARRED)
  /\ Worked(gop)
  /\ gop.ret.operation_status = "FAILED"
  /\ "STARRED" \in gop.pre.labelIds[gop.args.msg_id]
  /\ gmail = gop.pre

\* One call of the Outlook toggle_label_email; L is the category the label name
\* is normalized to.
OutlookToggleStep ==
  LET call == oop'
      msg == call.args.msg_id
      L == capitalize(strip(call.args.label_name))
      lacking == \A i \in DOMAIN outlook.categories[msg] :
                    outlook.categories[msg][i] # L
      status == call.ret.operation_status
  IN  (call.op = "toggle_label_email" /\ Worked(call)) =>
        /\ (call.args.action = "remove" /\ lacking) =>
             /\ status = "FAILED"
             /\ outlook'.categories = outlook.categories
        /\ (/\ call.args.action = "add"
            /\ oop.op = "toggle_label_email"
            /\ oop.args = call.args
            /\ oop.ret.operation_status = "SUCCEEDED"
            /\ L \notin {oop.pre.categories[msg][i] :
                           i \in DOMAIN oop.pre.categories[msg]}) =>
             /\ status = "FAILED"
             /\ outlook'.categories = outlook.categories

\* C8: on OutlookClient, add called twice in a row on a message that lacks the
\* category returns SUCCEEDED and then FAILED, and remove on a message that lacks
\* the category returns FAILED; the categories are unchanged in both FAILED cases.
C8_OutlookToggleSequence == [][OutlookToggleStep]_vars

\* C9: the Gmail toggle_label_email with a label name that matches no label of the
\* account, letter case aside, returns FAILED with a message that lists every
\* label name of the account, and makes neither a messages.get nor a
\* messages.modify: the labels.list is its only call.
C9_UnknownLabelListsLabels ==
  (/\ gop.op = "toggle_label_email"
   /\ ~NamesAccountLabel(gop.args.label_name)) =>
    /\ gop.ret.kind = "envelope"
    /\ gop.ret.operation_status = "FAILED"
    /\ gop.ret.result_type = "absent"
    /\ Len(gop.calls) = 1
    /\ gop.calls[1].api = "labels.list"
    /\ gmail = gop.pre
    /\ Worked(gop) =>
         /\ \A i \in DOMAIN GmailLabels :
              Contains(gop.ret.operation_message, lower(GmailLabels[i].name))
         /\ gop.ret.operation_message =
              <<"Label '">> \o gop.args.label_name
                \o <<"' not found. Available labels: ">>
                \o lower(INBOX) \o <<",">> \o lower(STARRED) \o <<",">> \o lower(WORK)

\* An add of "Fun", which the account does not have.
C9_Witness ==
  /\ gop.op = "toggle_label_email"
  /\ gop.args.action = "add"
  /\ gop.args.label_name = capitalize(FUN)
  /\ Worked(gop)
  /\ gop.ret.operation_status = "FAILED"

FailedEnvelope(op) ==
  /\ op.ret.kind = "envelope"
  /\ op.ret.operation_status = "FAILED"
  /\ op.ret.result_type = "absent"
  /\ op.ret.result = << >>

\* C10: for each of the nine operations of GmailClient and of OutlookClient, when
\* a call the operation makes on its transport fails (it raises, or on Outlook is
\* answered with a status outside 200, 201, 202, 204), the operation returns an
\* envelope with status FAILED and no result, and nothing is raised to the caller.
C10_TransportFailureIsFailedEnvelope ==
  /\ (gop.op \in OperationNames /\ ~gop.pending /\ ~Worked(gop)) => FailedEnvelope(gop)
  /\ (oop.op \in OperationNames /\ ~oop.pending /\ ~Worked(oop)) => FailedEnvelope(oop)

\* The PATCH of an Outlook toggle answered with a status that is no success.
C10_Witness ==
  /\ oop.op = "toggle_label_email"
  /\ oop.fate = [at |-> 2, how |-> "status"]
  /\ Len(oop.calls) = 2
  /\ oop.calls[2].failed
  /\ FailedEnvelope(oop)

(***************************************************************************)
(* Properties of search, read and reply.                                   *)
(***************************************************************************)
\* C11: the Outlook search_emails called with msg_id unset and an after or before
\* that is no date in YYYY/MM/DD returns a FAILED envelope; no exception reaches
\* the caller.
C11_OutlookSearchBadDateIsFailed ==
  (/\ OutlookSearched
   /\ oop.args.filters.msg_id = None
   /\ ~DatesValid(oop.args.filters)) =>
    FailedEnvelope(oop)

\* The payload of a returned envelope: absent on FAILED; on SUCCEEDED of
\* search_emails one record when msg_id was given and otherwise the list of the
\* messages in the order they were listed; on SUCCEEDED of read_emails a list.
PayloadTyped(op) ==
  /\ op.ret.operation_status = "FAILED" => op.ret.result_type = "absent"
  /\ (op.ret.operation_status = "SUCCEEDED" /\ op.op = "read_emails") =>
       op.ret.result_type = "list"
  /\ (op.ret.operation_status = "SUCCEEDED" /\ op.op = "search_emails") =>
       IF op.args.filters.msg_id # None
       THEN /\ op.ret.result_type = "dict"
            /\ Len(op.ret.result) = 1
            /\ op.ret.result[1].id = op.args.filters.msg_id
       ELSE /\ op.ret.result_type = "list"
            /\ Len(op.ret.result) = Len(op.listed)
            /\ \A i \in DOMAIN op.listed : op.ret.result[i].id = op.listed[i]

\* C17: in every envelope either client returns from search_emails or read_emails
\* the payload is absent on FAILED, and on SUCCEEDED it is a single record for a
\* search by msg_id, a list (of any length, zero and one included) for any other
\* search, and a list for read_emails.
SearchedOrRead(op) ==
  op.op \in {"search_emails", "read_emails"} /\ ~op.pending /\ op.ret.kind = "envelope"

C17_PayloadShape ==
  /\ SearchedOrRead(gop) => PayloadTyped(gop)
  /\ SearchedOrRead(oop) => PayloadTyped(oop)

C17_Witness ==
  /\ gop.op = "search_emails"
  /\ ~gop.pending
  /\ gop.args.filters.msg_id = None
  /\ gop.ret.operation_status = "SUCCEEDED"
  /\ gop.ret.result_type = "list"
  /\ Len(gop.ret.result) = 1

GmailReplied == gop.op = "reply_to_email" /\ ~gop.pending

\* The message a reply answers, as the account holds it when reply is called.
Original == GmailResource(gop.pre, gop.args.msg_id)

\* C18: the first call of the Gmail reply_to_email is the lookup of the original
\* message.  When the lookup fails the reply is FAILED with the lookup's failure
\* message and nothing is sent; a send is made only after a lookup that
\* succeeded, to the original sender, with subject "Re: " and the original
\* subject, in the original thread.
C18_ReplyLooksUpFirst ==
  GmailReplied =>
    /\ Len(gop.calls) >= 1
    /\ gop.calls[1].api = "messages.get"
    /\ gop.calls[1].id = gop.args.msg_id
    /\ gop.calls[1].failed =>
         /\ Len(gop.calls) = 1
         /\ FailedEnvelope(gop)
         /\ gop.ret.operation_message = GmailError(gop.calls[1])
    /\ \A i \in DOMAIN gop.calls :
         gop.calls[i].api = "messages.send" =>
           /\ i = 2
           /\ ~gop.calls[1].failed
           /\ gop.calls[i].to = Original.from
           /\ gop.calls[i].subject = <<"Re: ">> \o Original.subject
           /\ gop.calls[i].thread = Original.threadId

C18_Witness ==
  /\ GmailReplied
  /\ Len(gop.calls) = 2
  /\ gop.calls[2].api = "messages.send"
  /\ gop.calls[2].subject = <<"Re: ", "Hello ", "m", "1">>
  /\ gop.ret.operation_status = "SUCCEEDED"

\* A read_emails whose search had a transport call fail.
ReadSearchFailed(op) ==
  op.op = "read_emails" /\ ~op.pending /\ \E i \in DOMAIN op.calls : op.calls[i].failed

\* C19: when the search inside read_emails fails, on either client, read_emails
\* returns a FAILED envelope whose message is the error text of the transport
\* call that failed.
C19_ReadReportsSearchError ==
  /\ ReadSearchFailed(gop) =>
       /\ FailedEnvelope(gop)
       /\ gop.ret.operation_message = GmailError(gop.calls[Len(gop.calls)])
  /\ ReadSearchFailed(oop) =>
       /\ FailedEnvelope(oop)
       /\ oop.ret.operation_message =
            OutlookError(oop.calls[Len(oop.calls)], Len(oop.calls), oop.fate)

\* The operation has returned, and a transport call it made that failed is the
\* last call it made and has it return a FAILED envelope without payload.
FailureEndsOperation(op) ==
  (op.op # "idle" /\ ~op.pending) =>
    \A i \in DOMAIN op.calls :
      op.calls[i].failed => i = Len(op.calls) /\ FailedEnvelope(op)

\* C20: in every operation of both clients a transport call that fails is the
\* last call of the operation (it is not retried and no later step runs), and
\* the operation ends with a FAILED envelope; a Gmail search that fails while
\* it fetches a listed message returns no partial list.
C20_NoRetry ==
  /\ FailureEndsOperation(gop)
  /\ FailureEndsOperation(oop)

C20_Witness ==
  /\ gop.op = "search_emails"
  /\ ~gop.pending
  /\ Len(gop.listed) = 2
  /\ Len(gop.calls) = 3
  /\ ~gop.calls[2].failed
  /\ gop.calls[3].failed
  /\ FailedEnvelope(gop)

(***************************************************************************)
(* Properties of the settings store.                                       *)
(***************************************************************************)
\* The file holds a valid record, and the record it holds.
StoredValid(file) ==
  file.form = "object" /\ EmailSettings(json_loads(file).val).ok

RecordOf(file) == EmailSettings(json_loads(file).val).val

\* A partial whose keys are all fields and whose values all pass.
ValidPartial(partial) ==
  \A i \in DOMAIN partial :
    partial[i].key \in FieldNames /\ Annotation(partial[i].key, partial[i].value)

PartialKeys(partial) == {partial[i].key : i \in DOMAIN partial}

\* Equality as Python has it: a member of Provider equals the str of its value.
PyEq(v, w) ==
  /\ v.text = w.text
  /\ v.type = w.type \/ {v.type, w.type} = {"str", "Provider"}

Updated(call) == call.op = "update" /\ call.pc = "done"

\* C12: an update of a stored valid record S with a valid partial P, run with no
\* concurrent writer, returns and stores the record that equals P on every key
\* of P and S on every other field.
C12_UpdateOverlaysPartial ==
  \A c \in Callers :
    LET call == settings.calls[c]
    IN (Updated(call) /\ StoredValid(call.pre) /\ ValidPartial(call.partial)) =>
         /\ call.ret.kind = "record"
         /\ \A i \in DOMAIN call.partial :
              PyEq(call.ret.record[call.partial[i].key], call.partial[i].value)
         /\ \A f \in FieldNames \ PartialKeys(call.partial) :
              call.ret.record[f] = RecordOf(call.pre)[f]
         /\ StoredValid(settings.file)
         /\ RecordOf(settings.file) = call.ret.record

C12_Witness ==
  \E c \in Callers :
    /\ Updated(settings.calls[c])
    /\ settings.calls[c].pre = Stored
    /\ settings.calls[c].partial = <<Item("tone", PyStr("friendly"))>>
    /\ settings.calls[c].ret.kind = "record"
    /\ settings.calls[c].ret.record.tone = PyStr("friendly")
    /\ settings.calls[c].ret.record.language = PyStr("fr")

\* A step of caller c in an update whose partial has a key outside the schema or
\* a value that fails validation.
RejectedStep(c) ==
  /\ settings'.calls[c] # settings.calls[c]
  /\ settings'.calls[c].op = "update"
  /\ ~ValidPartial(settings'.calls[c].partial)

\* C13: an update whose partial has any key that is no field of EmailSettings
\* (alone or among valid keys, in any position), or whose merged record fails
\* validation, never raises and never touches the file: each of its steps leaves
\* the file as it is (missing stays missing), it never opens the file for
\* writing, and it ends returning the pair ("error", message).
C13_RejectedUpdateLeavesFile ==
  [][\A c \in Callers :
       RejectedStep(c) =>
         /\ settings'.file = settings.file
         /\ settings'.calls[c].pc \in {"opened", "done"}
         /\ settings'.calls[c].pc = "done" =>
              /\ settings'.calls[c].ret.kind = "error"
              /\ settings'.calls[c].ret.message # << >>]_vars

C13_Witness ==
  \E c \in Callers :
    /\ Updated(settings.calls[c])
    /\ settings.calls[c].partial = <<Item("tone", PyStr("friendly")), Item("bogus", PyInt("1"))>>
    /\ settings.calls[c].ret.kind = "error"
    /\ settings.calls[c].pre = Stored
    /\ settings.file = Stored

\* C14: whatever the file holds when load_email_settings reads it, the call
\* raises nothing: it returns the stored record when the file holds a valid one,
\* and the default record when the file is missing, is no parseable JSON, or
\* is parseable JSON that fails the schema.
C14_LoadReturnsRecordOrDefaults ==
  \A c \in Callers :
    LET call == settings.calls[c]
    IN (call.op = "load" /\ call.pc = "done") =>
         /\ call.ret.kind = "record"
         /\ call.ret.record = IF StoredValid(call.content) THEN RecordOf(call.content)
                              ELSE EmailSettingsDefaults

\* C15: the document is rewritten atomically: what a load (or the load step of an
\* update) reads is a document that was stored, never the empty file or the
\* mixed text an update in progress leaves; the only text that is no JSON a
\* load can read is the one the file held from the start.
C15_RewriteIsAtomic ==
  \A c \in Callers :
    settings.calls[c].content.form = "text" => settings.calls[c].content = NotJson

\* The partial sets at least one field to a value the record does not have.
Changes(partial, record) ==
  \E i \in DOMAIN partial : ~PyEq(record[partial[i].key], partial[i].value)

Carries(record, partial) ==
  \A i \in DOMAIN partial : PyEq(record[partial[i].key], partial[i].value)

\* Two updates that have both returned a record, of valid partials over
\* different fields, each a change of the one valid document both have read.
BothLoadedBeforeEitherWrote(a, b) ==
  /\ Updated(a) /\ Updated(b)
  /\ a.ret.kind = "record" /\ b.ret.kind = "record"
  /\ ValidPartial(a.partial) /\ ValidPartial(b.partial)
  /\ PartialKeys(a.partial) \cap PartialKeys(b.partial) = {}
  /\ a.content = b.content
  /\ StoredValid(a.content)
  /\ Changes(a.partial, RecordOf(a.content))
  /\ Changes(b.partial, RecordOf(b.content))

\* C16: when two overlapping updates of different fields have both loaded before
\* either wrote, each returns the record with its own change, and the file ends
\* as text that is no JSON or holding one of the two returned records, in which
\* the change of the other update is lost.
C16_LostUpdate ==
  \A c, d \in Callers :
    LET a == settings.calls[c]
        b == settings.calls[d]
    IN (c # d /\ BothLoadedBeforeEitherWrote(a, b)) =>
         /\ Carries(a.ret.record, a.partial)
         /\ Carries(b.ret.record, b.partial)
         /\ \/ settings.file.form = "text" /\ settings.file.length > 0
            \/ /\ StoredValid(settings.file)
               /\ RecordOf(settings.file) \in {a.ret.record, b.ret.record}
               /\ \/ ~Carries(RecordOf(settings.file), a.partial)
                  \/ ~Carries(RecordOf(settings.file), b.partial)

C16_Witness ==
  /\ BothLoadedBeforeEitherWrote(settings.calls["a"], settings.calls["b"])
  /\ settings.calls["a"].content = Stored
  /\ settings.calls["a"].partial = <<Item("tone", PyStr("friendly"))>>
  /\ settings.calls["b"].partial = <<Item("character_limit", PyInt("500"))>>
  /\ StoredValid(settings.file)
  /\ RecordOf(settings.file) = settings.calls["b"].ret.record
  /\ RecordOf(settings.file).tone = PyStr("informal")

(***************************************************************************)
(* Properties that relate read, search, reply and the labels.              *)
(***************************************************************************)
\* The day days_back days before the day of the model, 2 March 2025.
CutoffDate(days_back) ==
  IF days_back = 1 THEN <<"2", "0", "2", "5", "/", "0", "3", "/", "0", "1">>
  ELSE <<"2", "0", "2", "5", "/", "0", "2", "/", "2", "5">>

CutoffFilters(days_back) == [NoFilters EXCEPT !.after = CutoffDate(days_back)]

\* read is the finished read_emails, search what search_emails does for the
\* cutoff date and max_results on the same account with the same answers.
ReadIsSearch(read, search) ==
  /\ read.calls = search.calls
  /\ read.ret.operation_status = "SUCCEEDED" =>
       /\ search.ret.operation_status = "SUCCEEDED"
       /\ read.ret.result_type = "list"
       /\ read.ret.result = search.ret.result

\* C21: read_emails(max_results, days_back) makes exactly the transport calls of
\* search_emails(after = the day days_back days ago as YYYY/MM/DD, max_results)
\* with every other filter unset, and when it succeeds its payload is the list
\* that search returns, element by element.
C21_ReadIsSearchAfterCutoff ==
  /\ (gop.op = "read_emails" /\ ~gop.pending) =>
       ReadIsSearch(gop, Gmail_search_emails(gop.pre, CutoffFilters(gop.args.days_back),
                                             None, gop.args.max_results, gop.fate,
                                             gop.listed))
  /\ (oop.op = "read_emails" /\ ~oop.pending) =>
       ReadIsSearch(oop, Outlook_search_emails(oop.pre, CutoffFilters(oop.args.days_back),
                                               None, oop.args.max_results, oop.fate,
                                               oop.listed))

C21_Witness ==
  /\ oop.op = "read_emails"
  /\ ~oop.pending
  /\ oop.args.days_back = 5
  /\ oop.ret.operation_status = "SUCCEEDED"
  /\ Len(oop.ret.result) = 2
  /\ oop.ret.result[1].id # oop.ret.result[2].id

\* C22: in one process the provider client is initialized at most once: a request
\* handled when a client already exists constructs none, and no token is loaded,
\* refreshed or obtained by consent for it.
C22_ClientInitializedOnce ==
  [][(server'.handled > server.handled /\ server.handled > 0) =>
       server'.constructed = server.constructed]_vars

UnreadClause == <<"isRead eq false">>

Planned == ComposeAnswered /\ planner.filters.msg_id = None /\ planner.out.ok

\* C23 as the spec states it: with unread set the clause isRead eq false is left
\* out when the label is INBOX and present for any other label or none.
C23_UnreadSuppressedForInbox ==
  (Planned /\ planner.filters.unread) =>
    IF planner.label # None /\ upper(planner.label) = INBOX
    THEN ~Contains(planner.out.val, UnreadClause)
    ELSE Contains(planner.out.val, UnreadClause)

\* C23, amended: with unread set the $filter has the clause isRead eq false
\* exactly once for every label, INBOX included, and for no label; with unread
\* not set it has none.
C23_UnreadAppliedOnce ==
  Planned =>
    Cardinality(Occurrences(planner.out.val, UnreadClause)) =
      IF planner.filters.unread THEN 1 ELSE 0

C23_Witness ==
  /\ Planned
  /\ planner.label = lower(INBOX)
  /\ planner.filters.unread
  /\ planner.filters.sender # None
  /\ StartsWith(planner.out.val, <<"/me/mailFolders/", "Inbox", "/messages", "?", "$filter=",
                                   "isRead eq false", " and ">>)

TopOf(max_results) == <<"$top=", ToString(max_results)>>

\* C24: with no label, no msg_id and every filter unset or false the planner
\* returns /me/messages?$top=<max_results>, with no $filter parameter; and every
\* endpoint composed without msg_id ends with $top=<max_results> and has that
\* parameter once.
C24_BroadestQueryAndOneTop ==
  /\ (ComposeAnswered /\ planner.label = None /\ planner.filters = NoFilters) =>
       /\ planner.out = Returned(<<"/me/messages", "?">> \o TopOf(planner.max_results))
       /\ ~Contains(planner.out.val, <<"$filter=">>)
  /\ Planned =>
       /\ EndsWith(planner.out.val, TopOf(planner.max_results))
       /\ Cardinality(Occurrences(planner.out.val, <<"$top=">>)) = 1

\* A query with every filter set: the limit follows the filter, after one "&".
C24_Witness ==
  /\ Planned
  /\ planner.label = WORK
  /\ planner.filters.sender # None
  /\ planner.filters.subject # None
  /\ planner.filters.has_attachment
  /\ planner.filters.unread
  /\ planner.filters.after \in GoodDates
  /\ planner.filters.before \in GoodDates
  /\ planner.max_results = 2
  /\ Contains(planner.out.val, <<"$filter=">>)
  /\ EndsWith(planner.out.val, <<"c eq '">> \o WORK \o <<"')", "&", "$top=", "2">>)

(***************************************************************************)
(* Properties that relate the two providers.                               *)
(***************************************************************************)
FoundSome(op) ==
  /\ op.op = "search_emails"
  /\ ~op.pending
  /\ op.ret.kind = "envelope"
  /\ op.ret.operation_status = "SUCCEEDED"
  /\ Len(op.ret.result) >= 1

\* The field names of the record each provider makes of a message.
GmailFieldNames == DOMAIN parse_msg(GmailResource(GmailInit, <<"m", "1">>))

OutlookFieldNames ==
  DOMAIN extract_important_fields(OutlookResource(OutlookInit, <<"m", "1">>))

\* C25: the record of a message found by a search has the same field names on
\* Gmail and on Outlook: what a Gmail search returns can be read through the
\* names of an Outlook record, and what an Outlook search returns through the
\* names of a Gmail record.
C25_SameFieldNames ==
  /\ FoundSome(gop) => DOMAIN gop.ret.result[1] = OutlookFieldNames
  /\ FoundSome(oop) => DOMAIN oop.ret.result[1] = GmailFieldNames

OutlookLabelled ==
  /\ oop.op = "toggle_label_email"
  /\ ~oop.pending
  /\ oop.args.action = "add"
  /\ oop.ret.kind = "envelope"
  /\ oop.ret.operation_status = "SUCCEEDED"

\* The endpoint of search_emails(label=L) with no other filter.
SearchByLabel(label) == compose_endpoint(GraphQueryPlanner(label, NoFilters, 1))

\* C26: the category that toggle_label_email(id, L, "add") has written on the
\* message is the one named in the category clause of search_emails(label=L).
C26_LabelledIsFound ==
  OutlookLabelled =>
    \E i \in DOMAIN oop.post.categories[oop.args.msg_id] :
      Contains(SearchByLabel(oop.args.label_name).val,
               CategoryClauseOf(oop.post.categories[oop.args.msg_id][i]))

Added(t) ==
  /\ toggles[t].pc = "done"
  /\ toggles[t].action = "add"
  /\ toggles[t].ret.operation_status = "SUCCEEDED"
  /\ toggles[t].overlapped

Carried(t) ==
  \E i \in DOMAIN outlook.categories[toggles[t].msg_id] :
    outlook.categories[toggles[t].msg_id][i] = capitalize(strip(toggles[t].label_name))

\* C27: when two "add" calls of the Outlook toggle_label_email for different
\* categories on one message overlap and both return SUCCEEDED, the message
\* carries both categories.
C27_NoLabelLost ==
  (/\ Added("a")
   /\ Added("b")
   /\ capitalize(strip(toggles["a"].label_name))
        # capitalize(strip(toggles["b"].label_name))) =>
    Carried("a") /\ Carried("b")

OutlookReplied ==
  /\ oop.op = "reply_to_email"
  /\ ~oop.pending
  /\ oop.ret.kind = "envelope"
  /\ oop.ret.operation_status = "SUCCEEDED"

\* C28: the reply request that the Outlook reply_to_email sends carries the
\* caller's body text, so a SUCCEEDED reply has submitted that text.
C28_ReplyCarriesBody ==
  OutlookReplied =>
    \E i \in DOMAIN oop.calls :
      /\ oop.calls[i].api = "POST"
      /\ EndsWith(oop.calls[i].endpoint, <<"/reply">>)
      /\ oop.calls[i].body = oop.args.body

(***************************************************************************)
(* The settings store, written and read back.                              *)
(***************************************************************************)
\* The update of caller "a" has returned a record.
UpdateReturned ==
  Updated(settings.calls["a"]) /\ settings.calls["a"].ret.kind = "record"

\* The step in which the load of caller "b" returns.
LoadReturns ==
  /\ settings.calls["b"].op = "load"
  /\ settings.calls["b"].pc # "done"
  /\ settings'.calls["b"].pc = "done"

\* record is the default record overlaid with partial.
DefaultsOverlaid(record, partial) ==
  /\ \A i \in DOMAIN partial : PyEq(record[partial[i].key], partial[i].value)
  /\ \A f \in FieldNames \ PartialKeys(partial) : record[f] = load_missing.record[f]

\* C29: settings round trip.  Once update_email_settings has returned a record R
\* and no other writer runs, the file holds R and a load_email_settings that
\* returns then returns R; when the file was missing or held no valid record
\* before the update, R is the default record overlaid with the partial fields
\* and the file holds R in place of what it held.
C29_RoundTrip ==
  /\ [](UpdateReturned =>
          /\ StoredValid(settings.file)
          /\ RecordOf(settings.file) = settings.calls["a"].ret.record
          /\ ~StoredValid(settings.calls["a"].pre) =>
               DefaultsOverlaid(settings.calls["a"].ret.record,
                                settings.calls["a"].partial))
  /\ [][(UpdateReturned /\ LoadReturns) =>
          settings'.calls["b"].ret = settings.calls["a"].ret]_vars

\* An update of a file that is no JSON, and the load after it.
C29_Witness ==
  /\ UpdateReturned
  /\ settings.calls["a"].pre = NotJson
  /\ settings.calls["a"].partial = <<Item("tone", PyStr("friendly"))>>
  /\ settings.calls["b"].op = "load"
  /\ settings.calls["b"].pc = "done"
  /\ settings.calls["b"].content = settings.file
  /\ settings.calls["b"].ret = settings.calls["a"].ret
  /\ settings.calls["b"].ret.record.tone = PyStr("friendly")

(***************************************************************************)
(* toggle_label_email called with an action it does not know.              *)
(***************************************************************************)
UnknownAction(op) ==
  /\ op.op = "toggle_label_email"
  /\ ~op.pending
  /\ op.args.action \notin {"add", "remove"}

NoCallOf(op, api) == \A i \in DOMAIN op.calls : op.calls[i].api # api

\* C30: toggle_label_email called with an action other than "add" or "remove"
\* returns FAILED on Gmail and on Outlook, sends no messages.modify and no
\* PATCH, and leaves the labels and the categories of every message as they
\* were.
C30_UnknownActionChangesNothing ==
  /\ UnknownAction(gop) =>
       /\ FailedEnvelope(gop)
       /\ NoCallOf(gop, "messages.modify")
       /\ gop.post = gop.pre
       /\ gmail = gop.pre
  /\ UnknownAction(oop) =>
       /\ FailedEnvelope(oop)
       /\ NoCallOf(oop, "PATCH")
       /\ oop.post = oop.pre
       /\ outlook = oop.pre

\* The message was fetched, it carries the category, and the action is refused.
C30_Witness ==
  /\ UnknownAction(oop)
  /\ oop.args.label_name = lower(STARRED)
  /\ Len(oop.calls) = 1
  /\ oop.calls[1].api = "GET"
  /\ ~oop.calls[1].failed
  /\ oop.pre.categories[oop.args.msg_id] = <<capitalize(STARRED)>>
  /\ oop.ret.operation_message = <<"Invalid action", ":", " ", "toggle">>

====
